---- MODULE Spec2Model ----
(***************************************************************************)
(* Verification model of testcontainers-couchbase:                         *)
(*   - IntervalRetryStrategy.retryUntil (src/src/retry-strategy.ts)        *)
(*   - CouchbaseConfigurationService (configureCluster, createBuckets)     *)
(*   - CouchbaseContainer.postStart                                        *)
(* Two specifications share the module: SpecRetry runs one retryUntil call *)
(* against an explicit clock; Spec runs postStart (bootstrap followed by   *)
(* the bucket / scope / collection / index fan-out) against a server whose *)
(* answers are chosen nondeterministically.                                *)
(***************************************************************************)
EXTENDS Integers, Sequences, FiniteSets, TLC

VARIABLES
    \* ---- one retryUntil call (SpecRetry) ----
    rpc,            \* position inside retryUntil
    now,            \* clock.getTime()
    startTime,      \* const startTime
    timeout,        \* parameter timeout
    interval,       \* constructor parameter interval
    results,        \* every value fn() resolved with, in invocation order
    probes,         \* number of fn() invocations
    sleeps,         \* number of wait(interval) calls started
    onTimeoutCalls, \* number of onTimeout() invocations
    returned,       \* what retryUntil returned (or threw)
    \* ---- the container and the configuration service (Spec) ----
    enabledServices,   \* CouchbaseContainer.enabledServices
    buckets,           \* CouchbaseContainer.buckets: name -> BucketDefinition
    isEnterprise,      \* CouchbaseContainer.isEnterprise
    isEnterpriseWrites, \* number of assignments to container.isEnterprise
    serverEnterprise,  \* what GET /pools reports as data.isEnterprise
    nodeOnline,        \* the cluster manager is listening (GET /pools: 200)
    pc,                \* position of postStart
    error,             \* the error postStart rejected with
    bpc,               \* position of createBucket(bucket), per bucket
    spc,               \* position of createScope(bucket, scope), per scope
    cpc,               \* position of createCollection(...), per collection
    ddl,               \* state of every buildSecondaryIndexForCollection call
    serverIndexes,     \* system:indexes on the server: index -> state
    issued,            \* the calls made so far (a wait step counts once)
    finished,          \* the calls that returned without throwing
    \* ---- one BucketDefinition under construction (SpecBucket) ----
    quota,             \* BucketDefinition.#quota
    flushEnabled,      \* BucketDefinition.#flushEnabled
    queryPrimaryIndex, \* BucketDefinition.#queryPrimaryIndex
    scopes,            \* the keys of BucketDefinition.#scopes
    thrown,            \* the last call threw an AssertionError
    ramQuotaMB,        \* the ramQuotaMB values buildBucket has posted
    \* ---- one CouchbaseContainer under construction (SpecContainer) ----
    customServiceQuotas, \* CouchbaseContainer.customServiceQuotas
    credentials,       \* CouchbaseContainer.username and userPassword
    memoryQuotas,      \* the body setMemoryQuotas posted to /pools/default
    externalPorts,     \* the body configureExternalPorts has put
    \* ---- the CouchbaseFile (SpecFile) ----
    couchbaseFile,     \* what yaml.parse returns for the CouchbaseFile
    \* ---- what the requests carry ----
    indexerSettings,   \* the body configureIndexer has posted
    adminUser,         \* the body configureAdminUser has posted
    auth,              \* the Basic auth pairs the requests were sent with
    startedCredentials, \* username, userPassword of StartedCouchbaseContainer
    \* ---- one probe of a wait step (SpecListing, SpecRows) ----
    listing,           \* result.data of the probe
    visible            \* what the predicate of the wait step returned for it

retryVars == <<rpc, now, startTime, timeout, interval, results, probes,
               sleeps, onTimeoutCalls, returned>>
clusterVars == <<enabledServices, buckets, isEnterprise, isEnterpriseWrites,
                 serverEnterprise, nodeOnline, pc, error, bpc, spc, cpc, ddl,
                 serverIndexes, issued, finished>>
bucketVars == <<quota, flushEnabled, queryPrimaryIndex, scopes, thrown,
                ramQuotaMB>>
containerVars == <<customServiceQuotas, credentials, memoryQuotas,
                   externalPorts>>
\* what the builder calls hold
sentVars == <<adminUser, auth, startedCredentials>>
requestVars == <<indexerSettings, sentVars>>
listingVars == <<listing, visible>>
builderVars == <<bucketVars, containerVars, couchbaseFile, requestVars,
                 listingVars>>
vars == <<retryVars, clusterVars, builderVars>>

(***************************************************************************)
(* Bounds                                                                  *)
(***************************************************************************)
\* the clock of SpecRetry stops at MaxTime
MaxTime == 6
\* a collection is given at most MaxSecondary secondary-index statements
MaxSecondary == 2
\* a probe of system:indexes returns at most MaxRows rows
MaxRows == 4

(***************************************************************************)
(* retry-strategy.ts                                                       *)
(***************************************************************************)
\* inputs of one retryUntil call: timeout, interval, and how late a timer or
\* a probe may be
Timeouts == {0, 2, 3}
Intervals == {1, 2}
ProbeDurations == {0, 1, 2}
TimerDelays == {0, 1}

\* what a retryUntil call ends with: a probe result, the value of onTimeout(),
\* or the rejection of fn()
NoValue == [kind |-> "none", id |-> 0, sat |-> FALSE, at |-> 0]
OnTimeoutValue == [kind |-> "onTimeout", id |-> 0, sat |-> FALSE, at |-> 0]
Rejection == [kind |-> "rejected", id |-> 0, sat |-> FALSE, at |-> 0]
ProbeResult(n, sat, time) == [kind |-> "result", id |-> n, sat |-> sat, at |-> time]

\* AbstractRetryStrategy.hasTimedOut
hasTimedOutEarly(time, timeoutArg, start) == time - start >= timeoutArg
hasTimedOutLate(time, timeoutArg, start) == time - start > timeoutArg + 1
hasTimedOut(time, timeoutArg, start) == time - start > timeoutArg

\* the body of retryUntil after fn() settled: what the call does next.
\*   settled  - "resolved" or "rejected" (await fn() throws)
\*   sat      - predicate(result)
\*   timedOut - this.hasTimedOut(timeout, startTime)
retryUntilNeverStops(settled, sat, timedOut) ==
    IF settled = "rejected" THEN "throw"
    ELSE IF timedOut /\ ~sat THEN "onTimeout"
    ELSE "retry"
retryUntilFirstResult(settled, sat, timedOut) ==
    IF settled = "rejected" THEN "throw"
    ELSE "result"
retryUntilSwallowing(settled, sat, timedOut) ==
    IF settled = "resolved" /\ sat THEN "result"
    ELSE IF timedOut THEN "onTimeout"
    ELSE "retry"
retryUntil(settled, sat, timedOut) ==
    IF settled = "rejected" THEN "throw"
    ELSE IF sat THEN "result"
    ELSE IF timedOut THEN "onTimeout"
    ELSE "retry"

InitRetryVars ==
    /\ rpc = "call"
    /\ now = 0
    /\ startTime = 0
    /\ results = <<>>
    /\ probes = 0
    /\ sleeps = 0
    /\ onTimeoutCalls = 0
    /\ returned = NoValue

\* retryUntil is called: startTime is read and fn() is invoked
RetryCall ==
    /\ rpc = "call"
    /\ startTime' = now
    /\ probes' = probes + 1
    /\ rpc' = "probing"
    /\ UNCHANGED <<now, timeout, interval, results, sleeps, onTimeoutCalls,
                   returned, clusterVars, builderVars>>

\* fn() settles after d time units; the loop condition and the deadline are
\* evaluated on the spot
RetryProbeSettles ==
    /\ rpc = "probing"
    /\ \E d \in ProbeDurations, settled \in {"resolved", "rejected"},
          sat \in BOOLEAN :
        /\ now + d <= MaxTime
        /\ settled = "rejected" => ~sat
        /\ now' = now + d
        /\ LET res == ProbeResult(probes, sat, now + d)
               next == retryUntil(settled, sat,
                                  hasTimedOut(now + d, timeout, startTime))
           IN  /\ results' = IF settled = "resolved"
                             THEN Append(results, res) ELSE results
               /\ rpc' = CASE next = "throw" -> "threw"
                           [] next = "result" -> "returned"
                           [] next = "onTimeout" -> "returned"
                           [] next = "retry" -> "waiting"
               /\ onTimeoutCalls' = IF next = "onTimeout"
                                    THEN onTimeoutCalls + 1 ELSE onTimeoutCalls
               /\ sleeps' = IF next = "retry" THEN sleeps + 1 ELSE sleeps
               /\ returned' = CASE next = "throw" -> Rejection
                                [] next = "result" -> res
                                [] next = "onTimeout" -> OnTimeoutValue
                                [] next = "retry" -> returned
    /\ UNCHANGED <<startTime, timeout, interval, probes, clusterVars,
                   builderVars>>

\* the timer of wait(interval) fires (never early) and fn() is invoked again
RetryWaitElapses ==
    /\ rpc = "waiting"
    /\ \E late \in TimerDelays :
        /\ now + interval + late <= MaxTime
        /\ now' = now + interval + late
    /\ probes' = probes + 1
    /\ rpc' = "probing"
    /\ UNCHANGED <<startTime, timeout, interval, results, sleeps,
                   onTimeoutCalls, returned, clusterVars, builderVars>>

(***************************************************************************)
(* couchbase-service.ts, the definitions and the container                 *)
(***************************************************************************)
Services == {"KV", "QUERY", "SEARCH", "INDEX", "ANALYTICS", "EVENTING"}

\* CouchbaseContainer.enabledServices as the constructor sets it
DefaultServices == {"KV", "QUERY", "SEARCH", "INDEX"}

\* the service sets considered (withEnabledServices accepts any)
ServiceChoices ==
    { DefaultServices,
      {"KV", "SEARCH"},
      {"KV", "INDEX", "ANALYTICS"},
      {"KV", "EVENTING"} }

BucketNames == {"b1", "b2"}
ScopeNames == {"s1"}
CollectionNames == {"c1", "c2"}
\* the collections that are given secondary indexes
IndexedCollections == {"c1"}

\* CollectionDefinition: #queryPrimaryIndex and #secondaryIndexes (the i-th
\* statement is written i)
CollectionDefinitions ==
    { [hasPrimaryIndex |-> p, secondaryIndexes |-> [i \in 1..n |-> i]] :
        p \in BOOLEAN, n \in 0..MaxSecondary }

\* new CollectionDefinition(name), and withSecondaryIndex, which pushes the
\* statement and leaves #queryPrimaryIndex as it is
NewCollectionDefinition ==
    [hasPrimaryIndex |-> TRUE, secondaryIndexes |-> <<>>]
withSecondaryIndex(definition, indexDefinition) ==
    [definition EXCEPT !.secondaryIndexes = Append(@, indexDefinition)]

\* ScopeDefinition: #collections, name -> CollectionDefinition; a collection
\* with several statements is considered on its own, one with at most one
\* statement also next to a collection without statements
CollectionMaps ==
    { f \in UNION { [names -> CollectionDefinitions] :
                      names \in SUBSET CollectionNames } :
        \A c \in DOMAIN f :
            /\ c \notin IndexedCollections => f[c].secondaryIndexes = <<>>
            /\ DOMAIN f # {c} => Len(f[c].secondaryIndexes) <= 1 }
ScopeDefinitions == { [collections |-> cs] : cs \in CollectionMaps }

\* BucketDefinition: #queryPrimaryIndex and #scopes, name -> ScopeDefinition
ScopeMaps ==
    UNION { [names -> ScopeDefinitions] : names \in SUBSET ScopeNames }
BucketDefinitions ==
    { [hasPrimaryIndex |-> p, scopes |-> sc] :
        p \in BOOLEAN, sc \in ScopeMaps }

\* CouchbaseContainer.buckets after a sequence of withBucket calls; a bucket
\* with scopes is considered on its own, buckets without scopes side by side
BucketMaps ==
    { f \in UNION { [names -> BucketDefinitions] :
                      names \in SUBSET BucketNames } :
        \A b \in DOMAIN f : DOMAIN f[b].scopes # {} => DOMAIN f = {b} }

\* BucketDefinition.hasScopes
hasScopes(b) == DOMAIN buckets[b].scopes # {}
\* CollectionDefinition.getSecondaryIndexes, hasSecondaryIndexes
getSecondaryIndexes(c) ==
    buckets[c[1]].scopes[c[2]].collections[c[3]].secondaryIndexes
hasSecondaryIndexes(c) == Len(getSecondaryIndexes(c)) > 0

\* the tasks the fan-out launches, named by their path in the definition tree
BucketIds == DOMAIN buckets
ScopeIds == UNION { { <<b, s>> : s \in DOMAIN buckets[b].scopes } :
                    b \in DOMAIN buckets }
CollectionIds ==
    UNION { { <<k[1], k[2], c>> :
              c \in DOMAIN buckets[k[1]].scopes[k[2]].collections } :
            k \in ScopeIds }
DdlIds ==
    UNION { { <<c[1], c[2], c[3], i>> : i \in DOMAIN getSecondaryIndexes(c) } :
            c \in CollectionIds }
TaskIds == {<<>>} \cup { <<b>> : b \in BucketIds } \cup ScopeIds
           \cup CollectionIds
ScopesOf(b) == { k \in ScopeIds : k[1] = b }
CollectionsOf(k) == { c \in CollectionIds : <<c[1], c[2]>> = k }
DdlsOf(c) == { d \in DdlIds : <<d[1], d[2], d[3]>> = c }

\* the indexes the server may hold: the primary index of a bucket (on its
\* default scope and collection), the primary index of a collection (n = 0)
\* and its secondary indexes (n > 0)
BucketPrimary(b) == <<b, "_default", "_default", 0>>
CollectionPrimary(c) == <<c[1], c[2], c[3], 0>>
IndexIds ==
    { BucketPrimary(b) : b \in BucketIds }
    \cup { CollectionPrimary(c) : c \in CollectionIds }
    \cup DdlIds

\* a call, named by the method of the service that makes it and the
\* definition it is made for
Call(op, on) == [op |-> op, on |-> on]

(***************************************************************************)
(* The server, as far as the service observes it                           *)
(***************************************************************************)
\* GET /pools: HTTP 200, another 2xx status, or a failed request
PoolsResponses == {"200", "2xx", "failed"}
\* HTTP 200 takes a cluster manager that is listening
PoolsResponsesOf(online) ==
    IF online THEN PoolsResponses ELSE PoolsResponses \ {"200"}

\* the two notices of a deferred index build the service looks for
RetryBuilding == "will retry building in the background"
RetriedInBackground == "Index creation will be retried in background"
Unrelated == "Request failed with status code 500"

\* the answer to an index-creation statement: success, or an error e with
\* e.message and e.response.data.errors[0].msg, where a notice shows up in
\* the message, in the body, or not at all
IndexResponses ==
    { [ok |-> TRUE, message |-> "", msg |-> ""],
      [ok |-> FALSE, message |-> RetryBuilding, msg |-> Unrelated],
      [ok |-> FALSE, message |-> RetriedInBackground, msg |-> Unrelated],
      [ok |-> FALSE, message |-> Unrelated, msg |-> RetriedInBackground],
      [ok |-> FALSE, message |-> Unrelated, msg |-> Unrelated] }

\* the server deferred the build when the error carries one of the notices
Deferred(resp) ==
    /\ ~resp.ok
    /\ {resp.message, resp.msg} \cap {RetryBuilding, RetriedInBackground} # {}

\* the index after the statement was answered with resp
IndexAfter(state, resp) ==
    IF resp.ok THEN "online"
    ELSE IF Deferred(resp) /\ state = "none" THEN "building"
    ELSE state

(***************************************************************************)
(* couchbase-configuration.service.ts                                      *)
(***************************************************************************)
NoError == "none"
\* the error a step threw: its message and the definition whose step threw it
Thrown(msg, at) == [msg |-> msg, at |-> at]
AxiosError == "AxiosError"

\* the positions of a task at which no call of its own is under way
Idle == {"start", "idle", "joinBuckets", "joinScopes", "joinCollections",
         "joinSecondaryIndexes", "done", "failed", "started"}

\* Promise.all over the positions of the launched children: rejected as soon
\* as one child is, fulfilled when all are
PromiseAllSettled(children, pending) ==
    IF ~(children \subseteq {"done", "failed"}) THEN pending
    ELSE IF "failed" \in children THEN "failed"
    ELSE "done"
PromiseAllFirstDone(children, pending) ==
    IF "done" \in children THEN "done"
    ELSE IF "failed" \in children THEN "failed"
    ELSE pending
PromiseAll(children, pending) ==
    IF "failed" \in children THEN "failed"
    ELSE IF children \subseteq {"done"} THEN "done"
    ELSE pending

\* The continuation that runs when a call settles. np, nb, ns, nc, nd are the
\* positions after the step itself; every Promise.all that became settled
\* settles its caller in turn (createCollections -> createScope ->
\* createScopes -> createBucket -> createBuckets -> postStart). A task that
\* moved to a new step has made the call of that step. msg is the error
\* thrown by the step that failed, if one did.
Settle(np, nb, ns, nc, nd, msg) ==
    LET sJoin == [k \in ScopeIds |->
                    IF ns[k] = "joinCollections"
                    THEN PromiseAll({ nc[c] : c \in CollectionsOf(k) },
                                    "joinCollections")
                    ELSE ns[k]]
        bJoin == [b \in BucketIds |->
                    IF nb[b] = "joinScopes"
                    THEN PromiseAll({ sJoin[k] : k \in ScopesOf(b) },
                                    "joinScopes")
                    ELSE nb[b]]
        pJoin == IF np = "joinBuckets"
                 THEN (LET all == PromiseAll({ bJoin[b] : b \in BucketIds },
                                             "joinBuckets")
                       IN  IF all = "done" THEN "started" ELSE all)
                 ELSE np
        old(t) == CASE Len(t) = 0 -> pc
                    [] Len(t) = 1 -> bpc[t[1]]
                    [] Len(t) = 2 -> spc[t]
                    [] Len(t) = 3 -> cpc[t]
        new(t) == CASE Len(t) = 0 -> pJoin
                    [] Len(t) = 1 -> bJoin[t[1]]
                    [] Len(t) = 2 -> sJoin[t]
                    [] Len(t) = 3 -> nc[t]
    IN  /\ pc' = pJoin
        /\ bpc' = bJoin
        /\ spc' = sJoin
        /\ cpc' = nc
        /\ ddl' = nd
        /\ error' = [t \in TaskIds |->
                        IF old(t) # "failed" /\ new(t) = "failed"
                        THEN msg ELSE error[t]]
        /\ issued' = issued
             \cup { Call(new(t), t) :
                      t \in { u \in TaskIds :
                                new(u) # old(u) /\ new(u) \notin Idle } }
             \cup { Call("buildSecondaryIndexForCollection", d) :
                      d \in { x \in DdlIds :
                                nd[x] = "inflight" /\ ddl[x] # "inflight" } }

Finish(call, done) ==
    finished' = IF done THEN finished \cup {call} ELSE finished

\* postStart: createBuckets() is called when configureCluster() returned; it
\* calls createBucket for every bucket
CreateBuckets ==
    Settle("joinBuckets", [b \in BucketIds |-> "buildBucket"], spc, cpc, ddl,
           NoError)

\* a step of postStart: throws msg, or goes on to the step next
PostStartThrows(msg) ==
    Settle("failed", bpc, spc, cpc, ddl, Thrown(msg, <<>>))
PostStartGoes(next) ==
    IF next = "createBuckets" THEN CreateBuckets
    ELSE Settle(next, bpc, spc, cpc, ddl, NoError)

\* configureCluster: what follows configureExternalPorts
AfterExternalPortsSkippingIndexer == "createBuckets"
AfterExternalPorts ==
    IF "INDEX" \in enabledServices THEN "configureIndexer"
    ELSE "createBuckets"

\* initializeIsEnterprise: the edition check on the value just written
EditionErrorUnchecked(enterprise) == NoError
EditionError(enterprise) ==
    IF ~enterprise /\ "ANALYTICS" \in enabledServices
    THEN "The Analytics Service is only supported with the Enterprise version"
    ELSE IF ~enterprise /\ "EVENTING" \in enabledServices
    THEN "The Eventing Service is only supported with the Enterprise version"
    ELSE NoError

Config == <<enabledServices, buckets, serverEnterprise>>

\* CouchbaseContainer.postStart calls configureCluster, which starts polling
postStart ==
    /\ pc = "start"
    /\ PostStartGoes("untilNodeIsOnline")
    /\ UNCHANGED <<Config, nodeOnline, isEnterprise, isEnterpriseWrites,
                   serverIndexes, finished, retryVars, builderVars>>

\* untilNodeIsOnline: the probe catches the error of a failed request and
\* resolves with undefined
untilNodeIsOnlineProbeRethrowing(response) ==
    IF response = "failed" THEN "rejected" ELSE "resolved"
untilNodeIsOnlineProbe(response) == "resolved"

\* untilNodeIsOnline: the check of what retryUntil returned
untilNodeIsOnlineNeverThrows(r) == FALSE
untilNodeIsOnlineThrows(r) == r = "onTimeout"

NodeOnlineTimeout == "Timeout waiting for node to be online"

\* untilNodeIsOnline, had it kept data.isEnterprise of the response with
\* status 200
untilNodeIsOnlineReadingEdition ==
    /\ pc = "untilNodeIsOnline"
    /\ \E response \in PoolsResponsesOf(nodeOnline), timedOut \in BOOLEAN :
        LET r == retryUntil(untilNodeIsOnlineProbe(response),
                            response = "200", timedOut)
            fatal == untilNodeIsOnlineThrows(r)
        IN  /\ Finish(Call("untilNodeIsOnline", <<>>),
                      r \notin {"retry", "throw"} /\ ~fatal)
            /\ isEnterprise' = IF r = "result" THEN serverEnterprise
                               ELSE isEnterprise
            /\ isEnterpriseWrites' = IF r = "result"
                                     THEN isEnterpriseWrites + 1
                                     ELSE isEnterpriseWrites
            /\ CASE r = "retry" -> PostStartGoes(pc)
                 [] r = "throw" -> PostStartThrows(AxiosError)
                 [] fatal -> PostStartThrows(NodeOnlineTimeout)
                 [] OTHER -> PostStartGoes("initializeIsEnterprise")
    /\ UNCHANGED <<Config, nodeOnline, serverIndexes, retryVars, builderVars>>
untilNodeIsOnline ==
    /\ pc = "untilNodeIsOnline"
    /\ \E response \in PoolsResponsesOf(nodeOnline), timedOut \in BOOLEAN :
        LET r == retryUntil(untilNodeIsOnlineProbe(response),
                            response = "200", timedOut)
            fatal == untilNodeIsOnlineThrows(r)
        IN  /\ Finish(Call("untilNodeIsOnline", <<>>),
                      r \notin {"retry", "throw"} /\ ~fatal)
            /\ CASE r = "retry" -> PostStartGoes(pc)
                 [] r = "throw" -> PostStartThrows(AxiosError)
                 [] fatal -> PostStartThrows(NodeOnlineTimeout)
                 [] OTHER -> PostStartGoes("initializeIsEnterprise")
    /\ UNCHANGED <<Config, nodeOnline, isEnterprise, isEnterpriseWrites,
                   serverIndexes, retryVars, builderVars>>

\* the cluster manager starts listening
NodeComesOnline ==
    /\ ~nodeOnline
    /\ nodeOnline' = TRUE
    /\ UNCHANGED <<Config, isEnterprise, isEnterpriseWrites, pc, error, bpc,
                   spc, cpc, ddl, serverIndexes, issued, finished, retryVars,
                   builderVars>>

initializeIsEnterprise ==
    /\ pc = "initializeIsEnterprise"
    /\ \E response \in PoolsResponsesOf(nodeOnline), timedOut \in BOOLEAN :
        LET r == retryUntil(IF response = "failed" THEN "rejected"
                            ELSE "resolved",
                            response = "200", timedOut)
            edition == EditionError(serverEnterprise)
        IN  /\ Finish(Call("initializeIsEnterprise", <<>>),
                      r = "result" /\ edition = NoError)
            /\ isEnterprise' = IF r = "result" THEN serverEnterprise
                               ELSE isEnterprise
            /\ isEnterpriseWrites' = IF r = "result"
                                     THEN isEnterpriseWrites + 1
                                     ELSE isEnterpriseWrites
            /\ CASE r = "throw" -> PostStartThrows(AxiosError)
                 [] r = "onTimeout" ->
                        PostStartThrows("Unable to determine whether image is an Enterprise version")
                 [] r = "result" /\ edition # NoError ->
                        PostStartThrows(edition)
                 [] r = "result" /\ edition = NoError ->
                        PostStartGoes("renameNode")
                 [] OTHER -> PostStartGoes(pc)
    /\ UNCHANGED <<Config, nodeOnline, serverIndexes, retryVars, builderVars>>

\* one administration call of configureCluster: the request fails and the
\* method throws msg, or it succeeds and configureCluster goes on
BootstrapCallIgnoringStatus(here, msg, next) ==
    /\ pc = here
    /\ \E ok \in BOOLEAN :
        /\ Finish(Call(here, <<>>), ok)
        /\ PostStartGoes(next)
    /\ UNCHANGED <<Config, nodeOnline, isEnterprise, isEnterpriseWrites,
                   serverIndexes, retryVars, builderVars>>
BootstrapCall(here, msg, next) ==
    /\ pc = here
    /\ \E ok \in BOOLEAN :
        /\ Finish(Call(here, <<>>), ok)
        /\ IF ok THEN PostStartGoes(next) ELSE PostStartThrows(msg)
    /\ UNCHANGED <<Config, nodeOnline, isEnterprise, isEnterpriseWrites,
                   serverIndexes, retryVars, builderVars>>

renameNode == BootstrapCall("renameNode", AxiosError, "initializeServices")
initializeServices ==
    BootstrapCall("initializeServices", "Could not enable couchbase services",
                  "setMemoryQuotas")
setMemoryQuotas ==
    BootstrapCall("setMemoryQuotas",
                  "Could not configure service memory quotas",
                  "configureAdminUser")
configureAdminUser ==
    BootstrapCall("configureAdminUser",
                  "Could not configure couchbase admin user",
                  "configureExternalPorts")
configureExternalPorts ==
    BootstrapCall("configureExternalPorts",
                  "Could not configure external ports", AfterExternalPorts)
\* configureIndexer: the body it posts to /settings/indexes
NoIndexerSettings == [storageMode |-> ""]
configureIndexerBodyForestdb == [storageMode |-> "forestdb"]
configureIndexerBody ==
    [storageMode |-> IF isEnterprise THEN "memory_optimized" ELSE "forestdb"]

configureIndexer ==
    /\ pc = "configureIndexer"
    /\ indexerSettings' = configureIndexerBody
    /\ \E ok \in BOOLEAN :
        /\ Finish(Call("configureIndexer", <<>>), ok)
        /\ IF ok THEN PostStartGoes("createBuckets")
           ELSE PostStartThrows("Could not configure the indexing service")
    /\ UNCHANGED <<Config, nodeOnline, isEnterprise, isEnterpriseWrites,
                   serverIndexes, retryVars, bucketVars, containerVars,
                   couchbaseFile, sentVars, listingVars>>

(***************************************************************************)
(* createBuckets: the fan-out over buckets, scopes and collections         *)
(***************************************************************************)
\* what a wait step of createBucket / createCollection does with the outcome
\* r of its retryUntil call: the value returned (a probe result or the value
\* of onTimeout) is not looked at
ProvisioningWait(r) ==
    CASE r = "throw" -> "throws"
      [] r = "result" -> "returns"
      [] r = "onTimeout" -> "returns"
      [] r = "retry" -> "pending"

\* createBucket: what follows each step
AfterPrimaryIndex(b) == IF hasScopes(b) THEN "createScopes" ELSE "done"

AfterKeyspacePresentIgnoringFlag(b) ==
    IF "QUERY" \in enabledServices THEN "buildPrimaryIndex"
    ELSE AfterPrimaryIndex(b)
AfterKeyspacePresentIgnoringQuery(b) ==
    IF buckets[b].hasPrimaryIndex THEN "buildPrimaryIndex"
    ELSE AfterPrimaryIndex(b)
AfterKeyspacePresent(b) ==
    IF buckets[b].hasPrimaryIndex /\ "QUERY" \in enabledServices
    THEN "buildPrimaryIndex"
    ELSE AfterPrimaryIndex(b)

AfterServicesEnabledSkippingIndex(b) == AfterPrimaryIndex(b)
AfterServicesEnabled(b) ==
    IF "QUERY" \in enabledServices THEN "waitForQueryKeyspacePresent"
    ELSE AfterKeyspacePresent(b)

\* createCollection: what follows each step
AfterCollectionPrimaryIndex(c) ==
    IF hasSecondaryIndexes(c) /\ "QUERY" \in enabledServices
    THEN "createSecondaryIndexes"
    ELSE "done"

AfterCollectionKeyspace(c) ==
    IF buckets[c[1]].scopes[c[2]].collections[c[3]].hasPrimaryIndex
       /\ "QUERY" \in enabledServices
    THEN "buildPrimaryIndexForCollection"
    ELSE AfterCollectionPrimaryIndex(c)

AfterBuildCollectionSkippingKeyspace(c) == AfterCollectionKeyspace(c)
AfterBuildCollection(c) ==
    IF "QUERY" \in enabledServices
    THEN "waitForQueryKeyspacePresentForCollection"
    ELSE AfterCollectionKeyspace(c)

\* buildPrimaryIndex (bucket): the errors that are swallowed
buildPrimaryIndexToleratesNothing(resp) == FALSE
buildPrimaryIndexTolerates(resp) == resp.message = RetryBuilding
\* buildPrimaryIndexForCollection, buildSecondaryIndexForCollection: a notice
\* in the response body is logged, only a notice in e.message is swallowed
collectionIndexTolerates(resp) == resp.message = RetriedInBackground

\* waitForCollectionSecondaryIndexesOnline: the predicate on the rows
\* (the states of the collection's non-primary indexes)
secondaryIndexesOnline(rows) == \A state \in rows : state = "online"

\* a step of createBucket(b): throws msg, or goes on to the step next
\* (createScopes calls createScope for every scope of the bucket)
BucketThrowsCancelling(b, msg) ==
    Settle(pc, [x \in BucketIds |-> "failed"], spc, cpc, ddl,
           Thrown(msg, <<b>>))
BucketThrowsRetrying(b, msg) ==
    Settle(pc, [bpc EXCEPT ![b] = "buildBucket"], spc, cpc, ddl, NoError)
BucketThrows(b, msg) ==
    Settle(pc, [bpc EXCEPT ![b] = "failed"], spc, cpc, ddl,
           Thrown(msg, <<b>>))
BucketGoes(b, next) ==
    IF next = "createScopes"
    THEN Settle(pc, [bpc EXCEPT ![b] = "joinScopes"],
                [k \in ScopeIds |-> IF k[1] = b THEN "buildScope" ELSE spc[k]],
                cpc, ddl, NoError)
    ELSE Settle(pc, [bpc EXCEPT ![b] = next], spc, cpc, ddl, NoError)

\* a step of createCollection(c): throws msg, or goes on to the step next
\* (the statements of the secondary indexes are all sent at once)
CollectionThrows(c, msg) ==
    Settle(pc, bpc, spc, [cpc EXCEPT ![c] = "failed"], ddl, Thrown(msg, c))
CollectionGoes(c, next) ==
    IF next = "createSecondaryIndexes"
    THEN Settle(pc, bpc, spc, [cpc EXCEPT ![c] = "joinSecondaryIndexes"],
                [d \in DdlIds |->
                   IF d \in DdlsOf(c) THEN "inflight" ELSE ddl[d]],
                NoError)
    ELSE Settle(pc, bpc, spc, [cpc EXCEPT ![c] = next], ddl, NoError)

FrameRewritingEdition ==
    /\ isEnterprise' = serverEnterprise
    /\ isEnterpriseWrites' = isEnterpriseWrites + 1
    /\ UNCHANGED <<Config, nodeOnline, retryVars, builderVars>>
FrameEnablingQuery ==
    /\ enabledServices' = enabledServices \cup {"QUERY"}
    /\ UNCHANGED <<buckets, serverEnterprise, nodeOnline, isEnterprise,
                   isEnterpriseWrites, retryVars, builderVars>>
Frame ==
    UNCHANGED <<Config, nodeOnline, isEnterprise, isEnterpriseWrites,
                retryVars, builderVars>>

\* a wait step of createBucket: one probe of its retryUntil call
BucketWait(b, here, sats, next) ==
    /\ bpc[b] = here
    /\ \E settled \in {"resolved", "rejected"}, sat \in sats,
          timedOut \in BOOLEAN :
        LET w == ProvisioningWait(retryUntil(settled, sat, timedOut))
        IN  /\ Finish(Call(here, <<b>>), w = "returns")
            /\ CASE w = "throws" -> BucketThrows(b, AxiosError)
                 [] w = "returns" -> BucketGoes(b, next)
                 [] OTHER -> BucketGoes(b, here)
    /\ UNCHANGED serverIndexes
    /\ Frame

\* a wait step of createCollection: one probe of its retryUntil call
CollectionWait(c, here, sats, next) ==
    /\ cpc[c] = here
    /\ \E settled \in {"resolved", "rejected"}, sat \in sats,
          timedOut \in BOOLEAN :
        LET w == ProvisioningWait(retryUntil(settled, sat, timedOut))
        IN  /\ Finish(Call(here, c), w = "returns")
            /\ CASE w = "throws" -> CollectionThrows(c, AxiosError)
                 [] w = "returns" -> CollectionGoes(c, next)
                 [] OTHER -> CollectionGoes(c, here)
    /\ UNCHANGED serverIndexes
    /\ Frame

buildBucketIgnoringStatus(b) ==
    /\ bpc[b] = "buildBucket"
    /\ \E ok \in BOOLEAN :
        /\ Finish(Call("buildBucket", <<b>>), ok)
        /\ BucketGoes(b, "waitForAllServicesEnabledForBucket")
    /\ UNCHANGED serverIndexes
    /\ Frame
buildBucket(b) ==
    /\ bpc[b] = "buildBucket"
    /\ \E ok \in BOOLEAN :
        /\ Finish(Call("buildBucket", <<b>>), ok)
        /\ IF ok
           THEN BucketGoes(b, "waitForAllServicesEnabledForBucket")
           ELSE BucketThrows(b, "Could not create bucket")
    /\ UNCHANGED serverIndexes
    /\ Frame

waitForAllServicesEnabledForBucket(b) ==
    BucketWait(b, "waitForAllServicesEnabledForBucket", BOOLEAN,
               AfterServicesEnabled(b))

waitForQueryKeyspacePresent(b) ==
    BucketWait(b, "waitForQueryKeyspacePresent", BOOLEAN,
               AfterKeyspacePresent(b))

buildPrimaryIndex(b) ==
    /\ bpc[b] = "buildPrimaryIndex"
    /\ \E resp \in IndexResponses :
        LET tolerated == resp.ok \/ buildPrimaryIndexTolerates(resp)
        IN  /\ Finish(Call("buildPrimaryIndex", <<b>>), tolerated)
            /\ serverIndexes' =
                 [serverIndexes EXCEPT ![BucketPrimary(b)] = IndexAfter(@, resp)]
            /\ IF tolerated
               THEN BucketGoes(b, "waitForBucketPrimaryIndexOnline")
               ELSE BucketThrows(b, resp.message)
    /\ Frame

waitForBucketPrimaryIndexOnline(b) ==
    BucketWait(b, "waitForBucketPrimaryIndexOnline",
               {serverIndexes[BucketPrimary(b)] = "online"},
               AfterPrimaryIndex(b))

\* createScope: buildScope, then createCollections calls createCollection for
\* every collection of the scope
buildScopeLaunchingAnyway(k) ==
    /\ spc[k] = "buildScope"
    /\ \E ok \in BOOLEAN :
        /\ Finish(Call("buildScope", k), ok)
        /\ Settle(pc, bpc, [spc EXCEPT ![k] = "joinCollections"],
                  [c \in CollectionIds |->
                     IF c \in CollectionsOf(k) THEN "buildCollection"
                     ELSE cpc[c]],
                  ddl, NoError)
    /\ UNCHANGED serverIndexes
    /\ Frame
buildScope(k) ==
    /\ spc[k] = "buildScope"
    /\ \E ok \in BOOLEAN :
        /\ Finish(Call("buildScope", k), ok)
        /\ IF ok
           THEN Settle(pc, bpc, [spc EXCEPT ![k] = "joinCollections"],
                       [c \in CollectionIds |->
                          IF c \in CollectionsOf(k) THEN "buildCollection"
                          ELSE cpc[c]],
                       ddl, NoError)
           ELSE Settle(pc, bpc, [spc EXCEPT ![k] = "failed"], cpc, ddl,
                       Thrown("Could not create scope", k))
    /\ UNCHANGED serverIndexes
    /\ Frame

buildCollection(c) ==
    /\ cpc[c] = "buildCollection"
    /\ \E ok \in BOOLEAN :
        /\ Finish(Call("buildCollection", c), ok)
        /\ IF ok
           THEN CollectionGoes(c, AfterBuildCollection(c))
           ELSE CollectionThrows(c, "Could not create collection")
    /\ UNCHANGED serverIndexes
    /\ Frame

waitForQueryKeyspacePresentForCollection(c) ==
    CollectionWait(c, "waitForQueryKeyspacePresentForCollection", BOOLEAN,
                   AfterCollectionKeyspace(c))

buildPrimaryIndexForCollection(c) ==
    /\ cpc[c] = "buildPrimaryIndexForCollection"
    /\ \E resp \in IndexResponses :
        LET tolerated == resp.ok \/ collectionIndexTolerates(resp)
        IN  /\ Finish(Call("buildPrimaryIndexForCollection", c), tolerated)
            /\ serverIndexes' =
                 [serverIndexes EXCEPT
                    ![CollectionPrimary(c)] = IndexAfter(@, resp)]
            /\ IF tolerated
               THEN CollectionGoes(c, "waitForCollectionPrimaryIndexOnline")
               ELSE CollectionThrows(c, resp.message)
    /\ Frame

waitForCollectionPrimaryIndexOnline(c) ==
    CollectionWait(c, "waitForCollectionPrimaryIndexOnline",
                   {serverIndexes[CollectionPrimary(c)] = "online"},
                   AfterCollectionPrimaryIndex(c))

\* one statement of the Promise.all in createCollection is answered
buildSecondaryIndexForCollection(d) ==
    /\ ddl[d] = "inflight"
    /\ \E resp \in IndexResponses :
        LET tolerated == resp.ok \/ collectionIndexTolerates(resp)
            c == <<d[1], d[2], d[3]>>
            nd == [ddl EXCEPT ![d] = IF tolerated THEN "done" ELSE "failed"]
            all == PromiseAll({ nd[x] : x \in DdlsOf(c) },
                              "joinSecondaryIndexes")
        IN  /\ Finish(Call("buildSecondaryIndexForCollection", d), tolerated)
            /\ serverIndexes' =
                 [serverIndexes EXCEPT ![d] = IndexAfter(@, resp)]
            /\ IF cpc[c] # "joinSecondaryIndexes"
               THEN Settle(pc, bpc, spc, cpc, nd, NoError)
               ELSE Settle(pc, bpc, spc,
                           [cpc EXCEPT ![c] =
                              IF all = "done"
                              THEN "waitForCollectionSecondaryIndexesOnline"
                              ELSE all],
                           nd, Thrown(resp.message, c))
    /\ Frame

waitForCollectionSecondaryIndexesOnline(c) ==
    CollectionWait(c, "waitForCollectionSecondaryIndexesOnline",
                   {secondaryIndexesOnline(
                      { serverIndexes[d] : d \in DdlsOf(c) } \ {"none"})},
                   "done")

\* the indexer finishes a build that was deferred to the background
IndexComesOnline(i) ==
    /\ serverIndexes[i] = "building"
    /\ serverIndexes' = [serverIndexes EXCEPT ![i] = "online"]
    /\ UNCHANGED <<pc, bpc, spc, cpc, error, ddl, issued, finished>>
    /\ Frame

(***************************************************************************)
(* BucketDefinition (couchbase-container.ts) and the body buildBucket posts *)
(***************************************************************************)
\* the quota a new BucketDefinition has, and the least withQuota accepts
DefaultQuota == 100
MinimumQuota == 100

\* the arguments the builder calls are given
Quotas == {0, 99, 100, 101, 150}

\* new BucketDefinition(name)
InitBucketVars ==
    /\ quota = DefaultQuota
    /\ flushEnabled = FALSE
    /\ queryPrimaryIndex = TRUE
    /\ scopes = {}
    /\ thrown = FALSE
    /\ ramQuotaMB = {}

\* withQuota: assert.ok(quota >= 100, ...) comes before the assignment
withQuotaUnchecked(q) == TRUE
withQuotaAsserts(q) == q >= MinimumQuota

withQuota ==
    /\ \E q \in Quotas :
        /\ thrown' = ~withQuotaAsserts(q)
        /\ quota' = IF withQuotaAsserts(q) THEN q ELSE quota
    /\ UNCHANGED <<flushEnabled, queryPrimaryIndex, scopes, ramQuotaMB,
                   retryVars, clusterVars, containerVars, couchbaseFile,
                   requestVars, listingVars>>

withFlushEnabled ==
    /\ \E enabled \in BOOLEAN : flushEnabled' = enabled
    /\ thrown' = FALSE
    /\ UNCHANGED <<quota, queryPrimaryIndex, scopes, ramQuotaMB, retryVars,
                   clusterVars, containerVars, couchbaseFile,
                   requestVars, listingVars>>

withPrimaryIndex ==
    /\ \E create \in BOOLEAN : queryPrimaryIndex' = create
    /\ thrown' = FALSE
    /\ UNCHANGED <<quota, flushEnabled, scopes, ramQuotaMB, retryVars,
                   clusterVars, containerVars, couchbaseFile,
                   requestVars, listingVars>>

withScope ==
    /\ \E name \in ScopeNames : scopes' = scopes \cup {name}
    /\ thrown' = FALSE
    /\ UNCHANGED <<quota, flushEnabled, queryPrimaryIndex, ramQuotaMB,
                   retryVars, clusterVars, containerVars, couchbaseFile,
                   requestVars, listingVars>>

\* buildBucket posts ramQuotaMB: bucket.quota.toString(), the decimal
\* numeral of the quota, written here as the number it denotes
PostBucket ==
    /\ ramQuotaMB' = ramQuotaMB \cup {quota}
    /\ thrown' = FALSE
    /\ UNCHANGED <<quota, flushEnabled, queryPrimaryIndex, scopes, retryVars,
                   clusterVars, containerVars, couchbaseFile,
                   requestVars, listingVars>>

(***************************************************************************)
(* CouchbaseContainer (couchbase-container.ts): the builder calls, and the *)
(* two requests of configureCluster whose bodies they determine            *)
(***************************************************************************)
\* CouchbaseService: identifier and minimumQuotaMb of every service
getIdentifier ==
    [KV |-> "kv", QUERY |-> "n1ql", SEARCH |-> "fts", INDEX |-> "index",
     ANALYTICS |-> "cbas", EVENTING |-> "eventing"]
getMinimumQuotaMb ==
    [KV |-> 256, QUERY |-> 0, SEARCH |-> 256, INDEX |-> 256,
     ANALYTICS |-> 1024, EVENTING |-> 256]
hasQuota(service) == getMinimumQuotaMb[service] > 0

\* the internal ports of the container
Ports ==
    [MGMT_PORT |-> 8091, MGMT_SSL_PORT |-> 18091, VIEW_PORT |-> 8092,
     VIEW_SSL_PORT |-> 18092, QUERY_PORT |-> 8093, QUERY_SSL_PORT |-> 18093,
     SEARCH_PORT |-> 8094, SEARCH_SSL_PORT |-> 18094,
     ANALYTICS_PORT |-> 8095, ANALYTICS_SSL_PORT |-> 18095,
     EVENTING_PORT |-> 8096, EVENTING_SSL_PORT |-> 18096,
     KV_PORT |-> 11210, KV_SSL_PORT |-> 11207]

\* the arguments the builder calls are given
QuotaArguments == {255, 256, 1023, 1024}
\* the services withServiceQuota is called for: the one without a quota and
\* one of either minimum quota
QuotaServices == {"KV", "QUERY", "ANALYTICS"}
ServiceArrays == SUBSET Services
Credentials == {<<"testUser", "testPassword">>}
Usernames == {"testUser", "admin"}
Passwords == {"testPassword", "secret"}

\* Map.prototype.set, on a map held as a function
MapSetKeepingFirst(map, key, value) ==
    [k \in DOMAIN map \cup {key} |-> IF k \in DOMAIN map THEN map[k] ELSE value]
MapSet(map, key, value) ==
    [k \in DOMAIN map \cup {key} |-> IF k = key THEN value ELSE map[k]]

\* new CouchbaseContainer(): nothing has been sent yet
InitContainerVars ==
    /\ customServiceQuotas = [service \in {} |-> 0]
    /\ credentials = <<"Administrator", "RandomUuid">>
    /\ memoryQuotas = {}
    /\ externalPorts = [hostname |-> "", ports |-> {}]

\* nothing has been sent, and no listing has been looked at
NoAdminUser == [username |-> "", password |-> "", port |-> ""]
NoListing == [hasData |-> FALSE, hasNodesExt |-> FALSE, nodesExt |-> <<>>]
InitRequestVars ==
    /\ indexerSettings = NoIndexerSettings
    /\ adminUser = NoAdminUser
    /\ auth = {}
    /\ startedCredentials = <<"", "">>
InitListingVars ==
    /\ listing = NoListing
    /\ visible = "pending"

\* what the builder calls and the two requests leave alone
ContainerFrame ==
    UNCHANGED <<buckets, isEnterprise, isEnterpriseWrites, serverEnterprise,
                nodeOnline, error, bpc, spc, cpc, ddl, serverIndexes, issued,
                finished, retryVars, quota, flushEnabled, queryPrimaryIndex,
                scopes, ramQuotaMB, couchbaseFile, indexerSettings,
                listingVars>>

\* the builder calls are made on the container that start() has not been
\* called on (start() returns the StartedCouchbaseContainer)
withCredentials ==
    /\ pc = "start"
    /\ \E c \in Credentials : credentials' = c
    /\ thrown' = FALSE
    /\ UNCHANGED <<enabledServices, customServiceQuotas, memoryQuotas,
                   externalPorts, pc, sentVars>>
    /\ ContainerFrame

withUsername ==
    /\ pc = "start"
    /\ \E username \in Usernames : credentials' = <<username, credentials[2]>>
    /\ thrown' = FALSE
    /\ UNCHANGED <<enabledServices, customServiceQuotas, memoryQuotas,
                   externalPorts, pc, sentVars>>
    /\ ContainerFrame

withUserPassword ==
    /\ pc = "start"
    /\ \E userPassword \in Passwords :
          credentials' = <<credentials[1], userPassword>>
    /\ thrown' = FALSE
    /\ UNCHANGED <<enabledServices, customServiceQuotas, memoryQuotas,
                   externalPorts, pc, sentVars>>
    /\ ContainerFrame

withEnabledServices ==
    /\ pc = "start"
    /\ \E enabled \in ServiceArrays : enabledServices' = enabled
    /\ thrown' = FALSE
    /\ UNCHANGED <<customServiceQuotas, credentials, memoryQuotas,
                   externalPorts, pc, sentVars>>
    /\ ContainerFrame

\* withServiceQuota: the two assertions come before the assignment
withServiceQuotaAssertsQuotaOnly(service, quotaMb) ==
    quotaMb >= getMinimumQuotaMb[service]
withServiceQuotaAsserts(service, quotaMb) ==
    /\ hasQuota(service)
    /\ quotaMb >= getMinimumQuotaMb[service]

withServiceQuota(service, quotaMb) ==
    /\ pc = "start"
    /\ thrown' = ~withServiceQuotaAsserts(service, quotaMb)
    /\ customServiceQuotas' =
         IF withServiceQuotaAsserts(service, quotaMb)
         THEN MapSet(customServiceQuotas, service, quotaMb)
         ELSE customServiceQuotas
    /\ UNCHANGED <<enabledServices, credentials, memoryQuotas, externalPorts,
                   pc, sentVars>>
    /\ ContainerFrame

withAnalyticsServiceReplacing ==
    /\ pc = "start"
    /\ enabledServices' = {"ANALYTICS"}
    /\ thrown' = FALSE
    /\ UNCHANGED <<customServiceQuotas, credentials, memoryQuotas,
                   externalPorts, pc, sentVars>>
    /\ ContainerFrame
withAnalyticsService ==
    /\ pc = "start"
    /\ enabledServices' = enabledServices \cup {"ANALYTICS"}
    /\ thrown' = FALSE
    /\ UNCHANGED <<customServiceQuotas, credentials, memoryQuotas,
                   externalPorts, pc, sentVars>>
    /\ ContainerFrame

withEventingService ==
    /\ pc = "start"
    /\ enabledServices' = enabledServices \cup {"EVENTING"}
    /\ thrown' = FALSE
    /\ UNCHANGED <<customServiceQuotas, credentials, memoryQuotas,
                   externalPorts, pc, sentVars>>
    /\ ContainerFrame

\* setMemoryQuotas: the name of the parameter of a service, and the
\* parameters appended for the enabled services (quota.toString() is the
\* decimal numeral of the quota, written here as the number it denotes)
QuotaParameterUniform(service) == getIdentifier[service] \o "MemoryQuota"
QuotaParameter(service) ==
    IF service = "KV" THEN "memoryQuota"
    ELSE getIdentifier[service] \o "MemoryQuota"

setMemoryQuotasBody ==
    { <<QuotaParameter(service),
        IF service \in DOMAIN customServiceQuotas
        THEN customServiceQuotas[service]
        ELSE getMinimumQuotaMb[service]>> :
        service \in { x \in enabledServices : hasQuota(x) } }

\* getNewInstance: the Basic auth of the AxiosInstance it creates
getNewInstance == [username |-> credentials[1], password |-> credentials[2]]

\* the request of setMemoryQuotas, made once start() has been called, on the
\* instance the constructor of the service created
PostMemoryQuotas ==
    /\ pc = "start"
    /\ memoryQuotas' = setMemoryQuotasBody
    /\ auth' = auth \cup {getNewInstance}
    /\ pc' = "configureAdminUser"
    /\ thrown' = FALSE
    /\ UNCHANGED <<enabledServices, customServiceQuotas, credentials,
                   externalPorts, adminUser, startedCredentials>>
    /\ ContainerFrame

\* configureAdminUser: the body it posts to /settings/web
configureAdminUserBodyDefaultUser ==
    [username |-> "Administrator", password |-> credentials[2],
     port |-> "SAME"]
configureAdminUserBody ==
    [username |-> credentials[1], password |-> credentials[2],
     port |-> "SAME"]

\* the request of configureAdminUser, on the same instance
PostAdminUser ==
    /\ pc = "configureAdminUser"
    /\ adminUser' = configureAdminUserBody
    /\ pc' = "configureExternalPorts"
    /\ thrown' = FALSE
    /\ UNCHANGED <<enabledServices, customServiceQuotas, credentials,
                   memoryQuotas, externalPorts, auth, startedCredentials>>
    /\ ContainerFrame

\* configureExternalPorts: the entries of the body, each the name of a
\* parameter with the internal port whose mapped port is its value
PortPair(enabled, plain, plainPort, tls, tlsPort) ==
    IF enabled THEN {<<plain, plainPort>>, <<tls, tlsPort>>} ELSE {}

configureExternalPortsBodyAllServices ==
    [hostname |-> "getHost",
     ports |->
        PortPair(TRUE, "mgmt", Ports.MGMT_PORT, "mgmtSSL", Ports.MGMT_SSL_PORT)
        \cup PortPair(TRUE, "kv", Ports.KV_PORT, "kvSSL", Ports.KV_SSL_PORT)
        \cup PortPair(TRUE, "capi", Ports.VIEW_PORT,
                      "capiSSL", Ports.VIEW_SSL_PORT)
        \cup PortPair(TRUE, "n1ql", Ports.QUERY_PORT,
                      "n1qlSSL", Ports.QUERY_SSL_PORT)
        \cup PortPair(TRUE, "fts", Ports.SEARCH_PORT,
                      "ftsSSL", Ports.SEARCH_SSL_PORT)
        \cup PortPair(TRUE, "cbas", Ports.ANALYTICS_PORT,
                      "cbasSSL", Ports.ANALYTICS_SSL_PORT)
        \cup PortPair(TRUE, "eventingAdminPort", Ports.EVENTING_PORT,
                      "eventingSSL", Ports.EVENTING_SSL_PORT)]
configureExternalPortsBody ==
    [hostname |-> "getHost",
     ports |->
        PortPair(TRUE, "mgmt", Ports.MGMT_PORT, "mgmtSSL", Ports.MGMT_SSL_PORT)
        \cup PortPair("KV" \in enabledServices,
                      "kv", Ports.KV_PORT, "kvSSL", Ports.KV_SSL_PORT)
        \cup PortPair("KV" \in enabledServices,
                      "capi", Ports.VIEW_PORT, "capiSSL", Ports.VIEW_SSL_PORT)
        \cup PortPair("QUERY" \in enabledServices,
                      "n1ql", Ports.QUERY_PORT, "n1qlSSL", Ports.QUERY_SSL_PORT)
        \cup PortPair("SEARCH" \in enabledServices,
                      "fts", Ports.SEARCH_PORT, "ftsSSL", Ports.SEARCH_SSL_PORT)
        \cup PortPair("ANALYTICS" \in enabledServices,
                      "cbas", Ports.ANALYTICS_PORT,
                      "cbasSSL", Ports.ANALYTICS_SSL_PORT)
        \cup PortPair("EVENTING" \in enabledServices,
                      "eventingAdminPort", Ports.EVENTING_PORT,
                      "eventingSSL", Ports.EVENTING_SSL_PORT)]

\* the request of configureExternalPorts, which follows that of
\* setMemoryQuotas (and of configureAdminUser)
PutExternalPorts ==
    /\ pc = "configureExternalPorts"
    /\ externalPorts' = configureExternalPortsBody
    /\ pc' = "createBuckets"
    /\ thrown' = FALSE
    /\ UNCHANGED <<enabledServices, customServiceQuotas, credentials,
                   memoryQuotas, sentVars>>
    /\ ContainerFrame

\* a request to /query/service during createBuckets, on an instance that
\* getNewInstance('QUERY_PORT') creates for it
PostQueryService ==
    /\ pc = "createBuckets"
    /\ auth' = auth \cup {getNewInstance}
    /\ pc' = "postStarted"
    /\ thrown' = FALSE
    /\ UNCHANGED <<enabledServices, customServiceQuotas, credentials,
                   memoryQuotas, externalPorts, adminUser, startedCredentials>>
    /\ ContainerFrame

\* start(): super.start() has returned and the StartedCouchbaseContainer is
\* constructed
start ==
    /\ pc = "postStarted"
    /\ startedCredentials' = credentials
    /\ pc' = "started"
    /\ thrown' = FALSE
    /\ UNCHANGED <<enabledServices, customServiceQuotas, credentials,
                   memoryQuotas, externalPorts, adminUser, auth>>
    /\ ContainerFrame

(***************************************************************************)
(* CouchbaseContainer.fromCouchbaseFile                                    *)
(***************************************************************************)
\* a flag of the file: the key is absent, or given as true or as false
YamlFlags == {"absent", "true", "false"}
\* flag === false ? false : true
YamlFlag(flag) == flag # "false"

\* the entry of a collection: name, hasPrimaryIndex and the statements
\* listed under indexes (the i-th statement is written i)
FileCollections ==
    { [name |-> "c1", hasPrimaryIndex |-> p, indexes |-> [i \in 1..n |-> i]] :
        p \in YamlFlags, n \in 0..MaxSecondary }
\* the collections of a scope: one entry, or two entries of the same name
FileCollectionLists ==
    { <<c>> : c \in FileCollections }
    \cup { <<c, d>> : c, d \in { e \in FileCollections : e.indexes = <<>> } }
\* the scopes of a bucket: one entry, or two entries of the same name
FileScopeLists ==
    { <<[name |-> "s1", collections |-> cs]>> : cs \in FileCollectionLists }
    \cup { <<[name |-> "s1", collections |-> <<c>>],
             [name |-> "s1", collections |-> <<>>]>> :
             c \in { e \in FileCollections : e.indexes = <<>> } }
\* the buckets of the file: one entry, or two entries of the same name
FileBucketLists ==
    { <<[name |-> "b1", hasPrimaryIndex |-> p, scopes |-> ss]>> :
        p \in {"absent", "false"}, ss \in FileScopeLists }
    \cup { <<[name |-> "b1", hasPrimaryIndex |-> p, scopes |-> <<>>],
             [name |-> "b1", hasPrimaryIndex |-> q, scopes |-> <<>>]>> :
             p, q \in {"absent", "false"} }
\* the services of the file: the key is absent, or lists name and quota
\* (quota 0: no quota given)
FileServices ==
    { [present |-> FALSE, list |-> <<>>],
      [present |-> TRUE,
       list |-> <<[name |-> "KV", quota |-> 512],
                  [name |-> "INDEX", quota |-> 0],
                  [name |-> "QUERY", quota |-> 0]>>],
      [present |-> TRUE, list |-> <<[name |-> "KV", quota |-> 128]>>] }
CouchbaseFiles ==
    { [services |-> sv, buckets |-> bs] :
        sv \in FileServices, bs \in FileBucketLists }
NoFile == [services |-> [present |-> FALSE, list |-> <<>>], buckets |-> <<>>]

\* config.services.forEach: withServiceQuota for every service with a
\* quota, up to the first call that throws
RECURSIVE QuotasFromFile(_, _)
QuotasFromFile(list, state) ==
    IF list = <<>> \/ state.thrown THEN state
    ELSE LET service == Head(list)
         IN  IF service.quota = 0 THEN QuotasFromFile(Tail(list), state)
             ELSE IF withServiceQuotaAsserts(service.name, service.quota)
             THEN QuotasFromFile(
                      Tail(list),
                      [map |-> MapSet(state.map, service.name, service.quota),
                       thrown |-> FALSE])
             ELSE [map |-> state.map, thrown |-> TRUE]

\* scope.collections.forEach: a new CollectionDefinition with withMaxTTL and
\* withPrimaryIndex, then newScope.withCollection; the key indexes of the
\* entry is not read
CollectionFromFile(collection) ==
    [NewCollectionDefinition EXCEPT
        !.hasPrimaryIndex = YamlFlag(collection.hasPrimaryIndex)]
RECURSIVE CollectionsFromFile(_, _)
CollectionsFromFile(list, map) ==
    IF list = <<>> THEN map
    ELSE CollectionsFromFile(
             Tail(list),
             MapSet(map, Head(list).name, CollectionFromFile(Head(list))))

\* bucket.scopes.forEach: a new ScopeDefinition with its collections, then
\* newBucket.withScope
ScopeFromFile(scope) ==
    [collections |-> CollectionsFromFile(scope.collections, <<>>)]
RECURSIVE ScopesFromFile(_, _)
ScopesFromFile(list, map) ==
    IF list = <<>> THEN map
    ELSE ScopesFromFile(Tail(list),
                        MapSet(map, Head(list).name, ScopeFromFile(Head(list))))

\* config.buckets.forEach: a new BucketDefinition with withPrimaryIndex,
\* withFlushEnabled, withQuota and its scopes, then this.withBucket
BucketFromFile(bucket) ==
    [hasPrimaryIndex |-> YamlFlag(bucket.hasPrimaryIndex),
     scopes |-> ScopesFromFile(bucket.scopes, <<>>)]
RECURSIVE BucketsFromFile(_, _)
BucketsFromFile(list, map) ==
    IF list = <<>> THEN map
    ELSE BucketsFromFile(Tail(list),
                         MapSet(map, Head(list).name, BucketFromFile(Head(list))))

\* fromCouchbaseFile, called on a new container; the tasks of postStart are
\* those of the buckets it added
fromCouchbaseFile ==
    /\ pc = "start"
    /\ DOMAIN buckets = {}
    /\ ~thrown
    /\ LET config == couchbaseFile
           quotas == IF config.services.present
                     THEN QuotasFromFile(config.services.list,
                                         [map |-> customServiceQuotas,
                                          thrown |-> FALSE])
                     ELSE [map |-> customServiceQuotas, thrown |-> FALSE]
       IN  /\ enabledServices' =
                IF config.services.present
                THEN { config.services.list[i].name :
                         i \in DOMAIN config.services.list }
                ELSE enabledServices
           /\ customServiceQuotas' = quotas.map
           /\ thrown' = quotas.thrown
           /\ buckets' = IF quotas.thrown THEN buckets
                         ELSE BucketsFromFile(config.buckets, buckets)
    /\ error' = [t \in TaskIds' |-> Thrown(NoError, <<>>)]
    /\ bpc' = [b \in BucketIds' |-> "idle"]
    /\ spc' = [k \in ScopeIds' |-> "idle"]
    /\ cpc' = [c \in CollectionIds' |-> "idle"]
    /\ ddl' = [d \in DdlIds' |-> "idle"]
    /\ serverIndexes' = [i \in IndexIds' |-> "none"]
    /\ UNCHANGED <<couchbaseFile, serverEnterprise, nodeOnline, isEnterprise,
                   isEnterpriseWrites, pc, issued, finished, retryVars, quota,
                   flushEnabled, queryPrimaryIndex, scopes, ramQuotaMB,
                   credentials, memoryQuotas, externalPorts, requestVars,
                   listingVars>>

(***************************************************************************)
(* waitForAllServicesEnabledForBucket: the predicate on one probe result   *)
(***************************************************************************)
\* the identifiers, character by character
IdentifierCharacters ==
    [kv |-> <<"k", "v">>,
     n1ql |-> <<"n", "1", "q", "l">>,
     fts |-> <<"f", "t", "s">>,
     index |-> <<"i", "n", "d", "e", "x">>,
     cbas |-> <<"c", "b", "a", "s">>,
     eventing |-> <<"e", "v", "e", "n", "t", "i", "n", "g">>]

\* the keys of nodesExt[0].services considered: kv, n1qlSSL, fts, indexAdmin,
\* cbas, eventingAdminPort, and k, which is shorter than every identifier
ServiceKeys ==
    { <<"k", "v">>,
      <<"n", "1", "q", "l", "S", "S", "L">>,
      <<"f", "t", "s">>,
      <<"i", "n", "d", "e", "x", "A", "d", "m", "i", "n">>,
      <<"c", "b", "a", "s">>,
      <<"e", "v", "e", "n", "t", "i", "n", "g", "A", "d", "m", "i", "n",
        "P", "o", "r", "t">>,
      <<"k">> }

\* an entry of nodesExt: with or without the key services
NodeEntries ==
    { [hasServices |-> FALSE, services |-> {}] }
    \cup { [hasServices |-> TRUE, services |-> keys] :
             keys \in SUBSET ServiceKeys }
FullNode == [hasServices |-> TRUE, services |-> ServiceKeys]
EmptyNode == [hasServices |-> TRUE, services |-> {}]

\* result.data: missing, without nodesExt, with an empty nodesExt, with one
\* entry, or with two entries of which one reports every key
Listings ==
    { [hasData |-> FALSE, hasNodesExt |-> FALSE, nodesExt |-> <<>>],
      [hasData |-> TRUE, hasNodesExt |-> FALSE, nodesExt |-> <<>>],
      [hasData |-> TRUE, hasNodesExt |-> TRUE, nodesExt |-> <<>>],
      [hasData |-> TRUE, hasNodesExt |-> TRUE,
       nodesExt |-> <<EmptyNode, FullNode>>],
      [hasData |-> TRUE, hasNodesExt |-> TRUE,
       nodesExt |-> <<FullNode, EmptyNode>>] }
    \cup { [hasData |-> TRUE, hasNodesExt |-> TRUE, nodesExt |-> <<node>>] :
             node \in NodeEntries }

\* String.prototype.startsWith
startsWithWhole(key, searchString) == key = searchString
startsWith(key, searchString) ==
    /\ Len(searchString) <= Len(key)
    /\ SubSeq(key, 1, Len(searchString)) = searchString

\* the predicate handed to retryUntil: reading nodesExt of a missing data
\* throws, which the predicate catches
allServicesEnabled(data) ==
    IF ~data.hasData THEN FALSE
    ELSE IF data.hasNodesExt /\ Len(data.nodesExt) >= 1
    THEN LET node == data.nodesExt[1]
             keys == IF node.hasServices THEN node.services ELSE {}
         IN  \A enabledService \in enabledServices :
                 \E service \in keys :
                     startsWith(service,
                                IdentifierCharacters[
                                    getIdentifier[enabledService]])
    ELSE FALSE

\* the predicate is applied to the result of one probe
predicate ==
    /\ visible = "pending"
    /\ visible' = IF allServicesEnabled(listing) THEN "true" ELSE "false"
    /\ UNCHANGED <<listing, retryVars, clusterVars, bucketVars, containerVars,
                   couchbaseFile, requestVars>>

(***************************************************************************)
(* waitForCollectionSecondaryIndexesOnline: the predicate on one probe     *)
(***************************************************************************)
\* the state of a row of system:indexes
RowStates == {"online", "offline", "deferred"}
\* result.data: without the key results, or with the rows the statement
\* selected
QueryResults ==
    { [hasResults |-> FALSE, results |-> <<>>] }
    \cup { [hasResults |-> TRUE, results |-> rows] :
             rows \in UNION { [1..n -> RowStates] : n \in 0..MaxRows } }

\* the predicate handed to retryUntil: results?.every(...) ? true : false
secondaryIndexesPredicate(data) ==
    IF ~data.hasResults THEN FALSE
    ELSE secondaryIndexesOnline({ data.results[i] : i \in DOMAIN data.results })

\* the predicate is applied to the result of one probe
waitForCollectionSecondaryIndexesOnlinePredicate ==
    /\ visible = "pending"
    /\ visible' = IF secondaryIndexesPredicate(listing) THEN "true" ELSE "false"
    /\ UNCHANGED <<listing, retryVars, clusterVars, bucketVars, containerVars,
                   couchbaseFile, requestVars>>

(***************************************************************************)
(* Specifications                                                          *)
(***************************************************************************)
Init ==
    /\ enabledServices \in ServiceChoices
    /\ buckets \in BucketMaps
    /\ serverEnterprise \in BOOLEAN
    /\ nodeOnline = FALSE
    /\ isEnterprise = FALSE
    /\ isEnterpriseWrites = 0
    /\ pc = "start"
    /\ error = [t \in TaskIds |-> Thrown(NoError, <<>>)]
    /\ bpc = [b \in BucketIds |-> "idle"]
    /\ spc = [k \in ScopeIds |-> "idle"]
    /\ cpc = [c \in CollectionIds |-> "idle"]
    /\ ddl = [d \in DdlIds |-> "idle"]
    /\ serverIndexes = [i \in IndexIds |-> "none"]
    /\ issued = {}
    /\ finished = {}
    /\ InitRetryVars
    /\ timeout = 0
    /\ interval = 1
    /\ InitBucketVars
    /\ InitContainerVars
    /\ couchbaseFile = NoFile
    /\ InitRequestVars
    /\ InitListingVars

Next ==
    \/ postStart
    \/ NodeComesOnline
    \/ untilNodeIsOnline
    \/ initializeIsEnterprise
    \/ renameNode
    \/ initializeServices
    \/ setMemoryQuotas
    \/ configureAdminUser
    \/ configureExternalPorts
    \/ configureIndexer
    \/ \E b \in BucketIds :
        \/ buildBucket(b)
        \/ waitForAllServicesEnabledForBucket(b)
        \/ waitForQueryKeyspacePresent(b)
        \/ buildPrimaryIndex(b)
        \/ waitForBucketPrimaryIndexOnline(b)
    \/ \E k \in ScopeIds : buildScope(k)
    \/ \E c \in CollectionIds :
        \/ buildCollection(c)
        \/ waitForQueryKeyspacePresentForCollection(c)
        \/ buildPrimaryIndexForCollection(c)
        \/ waitForCollectionPrimaryIndexOnline(c)
        \/ waitForCollectionSecondaryIndexesOnline(c)
    \/ \E d \in DdlIds : buildSecondaryIndexForCollection(d)
    \/ \E i \in IndexIds : IndexComesOnline(i)

Spec == Init /\ [][Next]_vars

\* every request is answered and every retryUntil call ends: a step that
\* moves postStart or one of its tasks on is taken when one is possible
SpecFair == Spec /\ WF_vars(Next)

InitRetry ==
    /\ InitRetryVars
    /\ timeout \in Timeouts
    /\ interval \in Intervals
    /\ enabledServices = DefaultServices
    /\ buckets = <<>>
    /\ serverEnterprise = FALSE
    /\ nodeOnline = FALSE
    /\ isEnterprise = FALSE
    /\ isEnterpriseWrites = 0
    /\ pc = "start"
    /\ error = <<>>
    /\ bpc = <<>>
    /\ spc = <<>>
    /\ cpc = <<>>
    /\ ddl = <<>>
    /\ serverIndexes = <<>>
    /\ issued = {}
    /\ finished = {}
    /\ InitBucketVars
    /\ InitContainerVars
    /\ couchbaseFile = NoFile
    /\ InitRequestVars
    /\ InitListingVars

NextRetry ==
    \/ RetryCall
    \/ RetryProbeSettles
    \/ RetryWaitElapses

SpecRetry == InitRetry /\ [][NextRetry]_vars

\* every probe settles and every timer fires: a call that can take a step
\* takes one
SpecRetryFair == SpecRetry /\ WF_vars(NextRetry)

InitBucket ==
    /\ InitBucketVars
    /\ InitContainerVars
    /\ couchbaseFile = NoFile
    /\ InitRequestVars
    /\ InitListingVars
    /\ InitRetryVars
    /\ timeout = 0
    /\ interval = 1
    /\ enabledServices = DefaultServices
    /\ buckets = <<>>
    /\ serverEnterprise = FALSE
    /\ nodeOnline = FALSE
    /\ isEnterprise = FALSE
    /\ isEnterpriseWrites = 0
    /\ pc = "start"
    /\ error = <<>>
    /\ bpc = <<>>
    /\ spc = <<>>
    /\ cpc = <<>>
    /\ ddl = <<>>
    /\ serverIndexes = <<>>
    /\ issued = {}
    /\ finished = {}

NextBucket ==
    \/ withQuota
    \/ withFlushEnabled
    \/ withPrimaryIndex
    \/ withScope
    \/ PostBucket

SpecBucket == InitBucket /\ [][NextBucket]_vars

\* a new CouchbaseContainer with one bucket, its builder calls, and the two
\* requests
InitContainer ==
    /\ InitContainerVars
    /\ couchbaseFile = NoFile
    /\ InitRequestVars
    /\ InitListingVars
    /\ InitBucketVars
    /\ InitRetryVars
    /\ timeout = 0
    /\ interval = 1
    /\ enabledServices = DefaultServices
    /\ buckets = [b \in {"b1"} |-> [hasPrimaryIndex |-> TRUE, scopes |-> <<>>]]
    /\ serverEnterprise = FALSE
    /\ nodeOnline = FALSE
    /\ isEnterprise = FALSE
    /\ isEnterpriseWrites = 0
    /\ pc = "start"
    /\ error = <<>>
    /\ bpc = <<>>
    /\ spc = <<>>
    /\ cpc = <<>>
    /\ ddl = <<>>
    /\ serverIndexes = <<>>
    /\ issued = {}
    /\ finished = {}

NextContainer ==
    \/ withUsername
    \/ withUserPassword
    \/ withCredentials
    \/ withEnabledServices
    \/ \E service \in QuotaServices, quotaMb \in QuotaArguments :
          withServiceQuota(service, quotaMb)
    \/ withAnalyticsService
    \/ withEventingService
    \/ PostMemoryQuotas
    \/ PostAdminUser
    \/ PutExternalPorts
    \/ PostQueryService
    \/ start

SpecContainer == InitContainer /\ [][NextContainer]_vars

\* a new CouchbaseContainer, fromCouchbaseFile, and postStart on what it
\* configured
InitFile ==
    /\ couchbaseFile \in CouchbaseFiles
    /\ enabledServices = DefaultServices
    /\ buckets = <<>>
    /\ serverEnterprise \in BOOLEAN
    /\ nodeOnline = FALSE
    /\ isEnterprise = FALSE
    /\ isEnterpriseWrites = 0
    /\ pc = "start"
    /\ error = [t \in {<<>>} |-> Thrown(NoError, <<>>)]
    /\ bpc = <<>>
    /\ spc = <<>>
    /\ cpc = <<>>
    /\ ddl = <<>>
    /\ serverIndexes = <<>>
    /\ issued = {}
    /\ finished = {}
    /\ InitRetryVars
    /\ timeout = 0
    /\ interval = 1
    /\ InitBucketVars
    /\ customServiceQuotas = [service \in {} |-> 0]
    /\ credentials = <<"Administrator", "RandomUuid">>
    /\ memoryQuotas = {}
    /\ externalPorts = [hostname |-> "", ports |-> {}]
    /\ InitRequestVars
    /\ InitListingVars

NextFile ==
    \/ fromCouchbaseFile
    \/ postStart
    \/ NodeComesOnline
    \/ untilNodeIsOnline
    \/ initializeIsEnterprise
    \/ renameNode
    \/ initializeServices
    \/ setMemoryQuotas
    \/ configureAdminUser
    \/ configureExternalPorts
    \/ configureIndexer
    \/ \E b \in BucketIds :
        \/ buildBucket(b)
        \/ waitForAllServicesEnabledForBucket(b)
        \/ waitForQueryKeyspacePresent(b)
        \/ buildPrimaryIndex(b)
        \/ waitForBucketPrimaryIndexOnline(b)
    \/ \E k \in ScopeIds : buildScope(k)
    \/ \E c \in CollectionIds :
        \/ buildCollection(c)
        \/ waitForQueryKeyspacePresentForCollection(c)
        \/ buildPrimaryIndexForCollection(c)
        \/ waitForCollectionPrimaryIndexOnline(c)
    \/ \E i \in IndexIds : IndexComesOnline(i)

SpecFile == InitFile /\ [][NextFile]_vars

\* one result of GET /pools/default/b/<bucket> and the predicate on it
InitListing ==
    /\ listing \in Listings
    /\ visible = "pending"
    /\ enabledServices \in ServiceArrays
    /\ buckets = [b \in {"b1"} |-> [hasPrimaryIndex |-> TRUE, scopes |-> <<>>]]
    /\ serverEnterprise = FALSE
    /\ nodeOnline = FALSE
    /\ isEnterprise = FALSE
    /\ isEnterpriseWrites = 0
    /\ pc = "start"
    /\ error = <<>>
    /\ bpc = <<>>
    /\ spc = <<>>
    /\ cpc = <<>>
    /\ ddl = <<>>
    /\ serverIndexes = <<>>
    /\ issued = {}
    /\ finished = {}
    /\ InitRetryVars
    /\ timeout = 0
    /\ interval = 1
    /\ InitBucketVars
    /\ InitContainerVars
    /\ couchbaseFile = NoFile
    /\ InitRequestVars

NextListing == predicate

SpecListing == InitListing /\ [][NextListing]_vars

\* one result of the statement on system:indexes and the predicate on it
InitRows ==
    /\ listing \in QueryResults
    /\ visible = "pending"
    /\ enabledServices = DefaultServices
    /\ buckets = [b \in {"b1"} |-> [hasPrimaryIndex |-> TRUE, scopes |-> <<>>]]
    /\ serverEnterprise = FALSE
    /\ nodeOnline = FALSE
    /\ isEnterprise = FALSE
    /\ isEnterpriseWrites = 0
    /\ pc = "start"
    /\ error = <<>>
    /\ bpc = <<>>
    /\ spc = <<>>
    /\ cpc = <<>>
    /\ ddl = <<>>
    /\ serverIndexes = <<>>
    /\ issued = {}
    /\ finished = {}
    /\ InitRetryVars
    /\ timeout = 0
    /\ interval = 1
    /\ InitBucketVars
    /\ InitContainerVars
    /\ couchbaseFile = NoFile
    /\ InitRequestVars

NextRows == waitForCollectionSecondaryIndexesOnlinePredicate

SpecRows == InitRows /\ [][NextRows]_vars

(***************************************************************************)
(* Properties                                                              *)
(***************************************************************************)
AnalyticsError ==
    "The Analytics Service is only supported with the Enterprise version"
EventingError ==
    "The Eventing Service is only supported with the Enterprise version"
EditionMismatch ==
    /\ ~serverEnterprise
    /\ enabledServices \cap {"ANALYTICS", "EVENTING"} # {}

\* C1: when the cluster is not an enterprise edition and ANALYTICS or
\* EVENTING is enabled, no call other than the cluster-info polls of the
\* Online and EditionKnown phases is ever made (no rename, setupServices,
\* quotas, admin, external ports, indexer, no bucket call), the start never
\* succeeds, and once the edition has been read postStart has failed with
\* the edition error; whatever buckets are configured
C1_EditionFailFast ==
    EditionMismatch =>
        /\ \A call \in issued :
              call.op \in {"untilNodeIsOnline", "initializeIsEnterprise"}
        /\ pc # "started"
        /\ isEnterpriseWrites > 0 =>
              /\ pc = "failed"
              /\ error[<<>>].msg \in {AnalyticsError, EventingError}

C1_Witness ==
    /\ EditionMismatch
    /\ isEnterpriseWrites > 0
    /\ pc = "failed"
    /\ error[<<>>].msg \in {AnalyticsError, EventingError}
    /\ BucketIds # {}

\* the phases of the bootstrap in the order the specification gives them
BootstrapPhases ==
    <<"untilNodeIsOnline", "initializeIsEnterprise", "renameNode",
      "initializeServices", "setMemoryQuotas", "configureAdminUser",
      "configureExternalPorts">>
    \o (IF "INDEX" \in enabledServices THEN <<"configureIndexer">> ELSE <<>>)

\* C2: the call of a bootstrap phase is made only when every earlier phase
\* has completed successfully, the indexer phase exists only with INDEX
\* enabled, and a call of the provisioning phase (bucket, scope, collection,
\* index) is made only when every bootstrap phase has completed
C2_BootstrapOrder ==
    LET made(i) == Call(BootstrapPhases[i], <<>>) \in issued
        done(i) == Call(BootstrapPhases[i], <<>>) \in finished
        all == \A i \in 1..Len(BootstrapPhases) : done(i)
    IN  /\ \A i \in 1..Len(BootstrapPhases) :
              made(i) => \A j \in 1..(i - 1) : done(j)
        /\ \A call \in issued :
              IF call.on = <<>>
              THEN \E i \in 1..Len(BootstrapPhases) :
                      call.op = BootstrapPhases[i]
              ELSE all
        /\ pc \in {"joinBuckets", "started"} => all

C2_Witness ==
    /\ pc = "started"
    /\ "INDEX" \in enabledServices
    /\ Call("buildBucket", <<"b1">>) \in finished

\* C3: retryUntil invokes the probe before any sleep, and a probe result it
\* returns is the last one obtained, satisfies the predicate, and is the
\* first to do so
C3_FirstSatisfyingResult ==
    /\ probes = 0 => sleeps = 0
    /\ sleeps = probes - (IF rpc \in {"call", "waiting"} THEN 0 ELSE 1)
    /\ returned.kind = "result" =>
          /\ Len(results) > 0
          /\ returned = results[Len(results)]
          /\ returned.sat
          /\ \A i \in 1..(Len(results) - 1) : ~results[i].sat

C3_Witness ==
    /\ returned.kind = "result"
    /\ Len(results) >= 3
    /\ sleeps = 2

\* the probe results obtained after the deadline
Late == { i \in 1..Len(results) : results[i].at - startTime > timeout }

\* C4 as claimed: when no probe result obtained before the deadline satisfies
\* the predicate the call returns the value of onTimeout, and no probe result
\* is returned once the elapsed time exceeds the timeout
C4_NoResultAfterDeadline ==
    /\ (/\ rpc = "returned"
        /\ \A i \in 1..Len(results) : i \notin Late => ~results[i].sat)
       => returned.kind = "onTimeout"
    /\ returned.kind = "result" => returned.at - startTime <= timeout

\* C4 as it holds: the value of onTimeout is returned (not thrown) exactly
\* when a probe result fails the predicate and the time read right after it
\* exceeds the timeout; the deadline is looked at only after a failed
\* predicate, so a satisfying result is returned even when it came late; at
\* most one probe result is obtained after the deadline
C4_TimeoutAfterFailedPredicate ==
    /\ returned.kind = "onTimeout" =>
          /\ rpc = "returned"
          /\ onTimeoutCalls = 1
          /\ Len(results) > 0
          /\ Len(results) \in Late
          /\ \A i \in 1..Len(results) : ~results[i].sat
    /\ (rpc = "waiting" /\ Len(results) > 0) =>
          /\ ~results[Len(results)].sat
          /\ Len(results) \notin Late
    /\ returned.kind = "result" => returned.sat
    /\ returned.kind # "onTimeout" => onTimeoutCalls = 0
    /\ Cardinality(Late) <= 1

C4_Witness ==
    /\ returned.kind = "onTimeout"
    /\ Len(results) >= 2

\* C5: within one call no probe is invoked after a probe result satisfied
\* the predicate, nor after onTimeout was called
C5_NoProbeAfterEnd ==
    /\ [](\A i \in 1..(Len(results) - 1) : ~results[i].sat)
    /\ [][ (\/ onTimeoutCalls > 0
            \/ (Len(results) > 0 /\ results[Len(results)].sat))
           => probes' = probes ]_vars

C5_Witness ==
    /\ rpc = "returned"
    /\ returned.kind = "result"
    /\ probes = 2

\* C6 as claimed: when provisioning completed successfully with QUERY
\* enabled, the primary index of every bucket with hasPrimaryIndex is online
C6_BucketPrimaryIndexOnline ==
    (pc = "started" /\ "QUERY" \in enabledServices) =>
        \A b \in BucketIds :
            buckets[b].hasPrimaryIndex =>
                serverIndexes[BucketPrimary(b)] = "online"

\* C7: for a bucket with hasPrimaryIndex = false neither the bucket-level
\* CREATE PRIMARY INDEX nor the bucket-level primary-index poll is ever made
C7_NoPrimaryIndexCalls ==
    \A b \in BucketIds :
        ~buckets[b].hasPrimaryIndex =>
            /\ Call("buildPrimaryIndex", <<b>>) \notin issued
            /\ Call("waitForBucketPrimaryIndexOnline", <<b>>) \notin issued
            /\ serverIndexes[BucketPrimary(b)] = "none"

C7_Witness ==
    /\ "QUERY" \in enabledServices
    /\ \E b \in BucketIds : ~buckets[b].hasPrimaryIndex /\ bpc[b] = "done"

\* the calls that go to the query endpoint
QueryCalls ==
    {"waitForQueryKeyspacePresent", "buildPrimaryIndex",
     "waitForBucketPrimaryIndexOnline",
     "waitForQueryKeyspacePresentForCollection",
     "buildPrimaryIndexForCollection", "waitForCollectionPrimaryIndexOnline",
     "buildSecondaryIndexForCollection",
     "waitForCollectionSecondaryIndexesOnline"}

\* C8: without QUERY among the enabled services no call to the query
\* endpoint is made for any bucket or collection, whatever their flags and
\* secondary-index lists
C8_NoQueryCalls ==
    "QUERY" \notin enabledServices =>
        /\ \A call \in issued : call.op \notin QueryCalls
        /\ \A i \in IndexIds : serverIndexes[i] = "none"

C8_Witness ==
    /\ "QUERY" \notin enabledServices
    /\ pc = "started"
    /\ \E c \in CollectionIds :
          /\ buckets[c[1]].hasPrimaryIndex
          /\ buckets[c[1]].scopes[c[2]].collections[c[3]].hasPrimaryIndex
          /\ hasSecondaryIndexes(c)

\* the steps of one collection in the order the specification gives them
CollectionSteps(c) ==
    LET def == buckets[c[1]].scopes[c[2]].collections[c[3]]
        query == "QUERY" \in enabledServices
    IN  <<"buildCollection">>
        \o (IF query THEN <<"waitForQueryKeyspacePresentForCollection">>
            ELSE <<>>)
        \o (IF query /\ def.hasPrimaryIndex
            THEN <<"buildPrimaryIndexForCollection",
                   "waitForCollectionPrimaryIndexOnline">>
            ELSE <<>>)
        \o (IF query /\ Len(def.secondaryIndexes) > 0
            THEN <<"buildSecondaryIndexForCollection",
                   "waitForCollectionSecondaryIndexesOnline">>
            ELSE <<>>)
StepMade(c, op) ==
    IF op = "buildSecondaryIndexForCollection"
    THEN \E d \in DdlsOf(c) : Call(op, d) \in issued
    ELSE Call(op, c) \in issued
StepDone(c, op) ==
    IF op = "buildSecondaryIndexForCollection"
    THEN \A d \in DdlsOf(c) : Call(op, d) \in finished
    ELSE Call(op, c) \in finished

\* C9: within one collection a step is started only when every earlier step
\* of that collection has finished (create, keyspace poll, primary index and
\* its poll, secondary statements and their poll), and no other call is made
\* for the collection; nothing orders the steps of different collections
C9_CollectionOrder ==
    \A c \in CollectionIds :
        LET steps == CollectionSteps(c)
        IN  /\ \A i \in 1..Len(steps) :
                  StepMade(c, steps[i]) =>
                      \A j \in 1..(i - 1) : StepDone(c, steps[j])
            /\ \A call \in issued :
                  (call.on = c \/ call.on \in DdlsOf(c)) =>
                      \E i \in 1..Len(steps) : call.op = steps[i]
            /\ cpc[c] = "done" =>
                  \A i \in 1..Len(steps) : StepDone(c, steps[i])

C9_Witness ==
    \E x, y \in CollectionIds :
        /\ cpc[x] = "waitForCollectionSecondaryIndexesOnline"
        /\ Call("buildPrimaryIndexForCollection", x) \in finished
        /\ cpc[y] = "buildCollection"

\* C10 as claimed: when provisioning completed successfully with QUERY
\* enabled, a collection with hasPrimaryIndex = false and n > 0 secondary
\* statements has exactly n non-primary indexes online and no primary index
C10_SecondaryIndexesOnline ==
    (pc = "started" /\ "QUERY" \in enabledServices) =>
        \A c \in CollectionIds :
            (/\ ~buckets[c[1]].scopes[c[2]].collections[c[3]].hasPrimaryIndex
             /\ hasSecondaryIndexes(c)) =>
                /\ Cardinality({ d \in DdlsOf(c) :
                                   serverIndexes[d] = "online" })
                     = Len(getSecondaryIndexes(c))
                /\ serverIndexes[CollectionPrimary(c)] = "none"

\* C11 as claimed: a wait step of the provisioning phase whose predicate does
\* not hold is left only by failing (the poll timing out, or the probe being
\* rejected, aborts the bucket or the collection), stated for the wait steps
\* whose predicate is a condition on system:indexes
C11_TimeoutIsFatal ==
    [][ /\ \A b \in BucketIds :
              (/\ bpc[b] = "waitForBucketPrimaryIndexOnline"
               /\ serverIndexes[BucketPrimary(b)] # "online"
               /\ bpc'[b] # bpc[b])
              => bpc'[b] = "failed"
        /\ \A c \in CollectionIds :
              (/\ cpc[c] = "waitForCollectionPrimaryIndexOnline"
               /\ serverIndexes[CollectionPrimary(c)] # "online"
               /\ cpc'[c] # cpc[c])
              => cpc'[c] = "failed"
        /\ \A c \in CollectionIds :
              (/\ cpc[c] = "waitForCollectionSecondaryIndexesOnline"
               /\ \E d \in DdlsOf(c) : serverIndexes[d] = "building"
               /\ cpc'[c] # cpc[c])
              => cpc'[c] = "failed" ]_vars

\* the position of a task or of a secondary-index statement, and the step a
\* task takes from its position
Position(t) ==
    CASE Len(t) = 0 -> pc
      [] Len(t) = 1 -> bpc[t[1]]
      [] Len(t) = 2 -> spc[t]
      [] Len(t) = 3 -> cpc[t]
      [] Len(t) = 4 -> ddl[t]
StepOfBucket(b) ==
    \/ buildBucket(b)
    \/ waitForAllServicesEnabledForBucket(b)
    \/ waitForQueryKeyspacePresent(b)
    \/ buildPrimaryIndex(b)
    \/ waitForBucketPrimaryIndexOnline(b)
StepOfCollection(c) ==
    \/ buildCollection(c)
    \/ waitForQueryKeyspacePresentForCollection(c)
    \/ buildPrimaryIndexForCollection(c)
    \/ waitForCollectionPrimaryIndexOnline(c)
    \/ waitForCollectionSecondaryIndexesOnline(c)

\* C12: a failure does not cancel what was launched beside it: the step in
\* which a bucket, scope, collection or statement fails moves no task other
\* than the failing one and the callers it rejects, and every launched task
\* that is not at its end can take its next step, whether or not postStart
\* has already rejected
C12_SiblingsContinue ==
    /\ [][ (\E t \in TaskIds \cup DdlIds :
               Position(t) # "failed" /\ Position(t)' = "failed")
           => \E t \in TaskIds \cup DdlIds :
                  \A u \in TaskIds \cup DdlIds :
                      \/ Position(u)' = Position(u)
                      \/ /\ Position(u)' = "failed"
                         /\ Len(u) <= Len(t)
                         /\ u = SubSeq(t, 1, Len(u)) ]_vars
    /\ [](/\ \A b \in BucketIds :
               bpc[b] \notin Idle => ENABLED StepOfBucket(b)
          /\ \A k \in ScopeIds :
               spc[k] \notin Idle => ENABLED buildScope(k)
          /\ \A c \in CollectionIds :
               cpc[c] \notin Idle => ENABLED StepOfCollection(c)
          /\ \A d \in DdlIds :
               ddl[d] = "inflight" =>
                   ENABLED buildSecondaryIndexForCollection(d))

C12_Witness ==
    /\ pc = "failed"
    /\ \E x, y \in CollectionIds :
          /\ cpc[x] = "failed"
          /\ error[x].msg = "Could not create collection"
          /\ cpc[y] = "waitForCollectionPrimaryIndexOnline"
    /\ \E b \in BucketIds : bpc[b] = "failed"

\* the buckets, scopes and collections that failed by a step of their own
FailedEntities ==
    { t \in TaskIds : Position(t) = "failed" /\ error[t].at = t /\ t # <<>> }

\* C13 as claimed: when provisioning failed, the error given to the caller
\* names every entity that failed
C13_AggregatedError ==
    (pc = "failed" /\ FailedEntities # {}) =>
        FailedEntities \subseteq {error[<<>>].at}

\* C13 as it holds: postStart rejects in the very step in which the first
\* entity fails, with the error of that entity alone; the error it rejected
\* with never changes afterwards, so entities failing later are not reported;
\* a failed start never becomes a successful one
C13_FirstFailureOnly ==
    /\ [](\A t \in TaskIds : Position(t) = "failed" => pc = "failed")
    /\ []((pc = "failed" /\ FailedEntities # {}) =>
             /\ error[<<>>].at \in FailedEntities
             /\ error[<<>>] = error[error[<<>>].at])
    /\ [][ (pc = "joinBuckets" /\ pc' = "failed") =>
               /\ \A t \in TaskIds : Position(t) # "failed"
               /\ Position(error[<<>>].at)' = "failed" ]_vars
    /\ [][ pc = "failed" => (pc' = "failed" /\ error'[<<>>] = error[<<>>])
         ]_vars

C13_Witness ==
    /\ pc = "failed"
    /\ \E x, y \in FailedEntities :
          /\ error[<<>>].at = x
          /\ y # x
          /\ error[y].msg # error[x].msg

\* C14: when the bucket-level CREATE PRIMARY INDEX statement is answered,
\* either the bucket goes on to the primary-index poll (after a success, or
\* after an error whose message carries the notice 'will retry building in
\* the background': no bucket ever fails with that message), or the bucket
\* fails with the error of the statement, and then neither the poll nor any
\* scope of the bucket is ever started; scopes are started only when the poll
\* has returned
C14_BucketDeferredBuild ==
    /\ [][ \A b \in BucketIds :
              (bpc[b] = "buildPrimaryIndex" /\ bpc'[b] # "buildPrimaryIndex")
              => IF bpc'[b] = "failed"
                 THEN /\ error'[<<b>>].at = <<b>>
                      /\ error'[<<b>>].msg # RetryBuilding
                      /\ serverIndexes'[BucketPrimary(b)] # "online"
                 ELSE /\ bpc'[b] = "waitForBucketPrimaryIndexOnline"
                      /\ Call("buildPrimaryIndex", <<b>>) \in finished'
                      /\ serverIndexes'[BucketPrimary(b)] # "none" ]_vars
    /\ [](\A b \in BucketIds :
             LET build == Call("buildPrimaryIndex", <<b>>)
                 poll == Call("waitForBucketPrimaryIndexOnline", <<b>>)
             IN  /\ (/\ build \in issued \ finished
                      /\ bpc[b] # "buildPrimaryIndex")
                     => /\ bpc[b] = "failed"
                        /\ poll \notin issued
                        /\ \A k \in ScopesOf(b) : spc[k] = "idle"
                 /\ build \in finished => poll \in issued
                 /\ (build \in finished /\ bpc[b] = "joinScopes")
                     => poll \in finished)

C14_Witness ==
    \E b \in BucketIds :
        /\ hasScopes(b)
        /\ bpc[b] = "joinScopes"
        /\ Call("waitForBucketPrimaryIndexOnline", <<b>>) \in finished
        /\ serverIndexes[BucketPrimary(b)] = "building"

\* C15 as claimed: a collection does not fail by an index statement (primary
\* or secondary) that the server deferred to the background with the notice
\* in the body of its error response (the error's own message being the
\* client's "Request failed ..."): in the step in which a collection fails
\* with such an error, none of its indexes starts building
C15_CollectionDeferredBuild ==
    [][ \A c \in CollectionIds :
          (/\ cpc[c] # "failed"
           /\ cpc'[c] = "failed"
           /\ error'[c].msg = Unrelated)
          => \A i \in {CollectionPrimary(c)} \cup DdlsOf(c) :
                 serverIndexes'[i] = "building" =>
                     serverIndexes[i] = "building" ]_vars

\* C16: container.isEnterprise is assigned at most once, only by the step of
\* initializeIsEnterprise and only while no bucket has been launched; it has
\* been assigned exactly once whenever a later bootstrap phase or the
\* provisioning is under way or the start has succeeded
C16_EditionWrittenOnce ==
    /\ [](isEnterpriseWrites <= 1)
    /\ []((\/ pc \in {"renameNode", "initializeServices", "setMemoryQuotas",
                      "configureAdminUser", "configureExternalPorts",
                      "configureIndexer", "joinBuckets", "started"}
           \/ \E b \in BucketIds : bpc[b] # "idle")
          => (isEnterpriseWrites = 1 /\ isEnterprise = serverEnterprise))
    /\ [][ (isEnterpriseWrites' # isEnterpriseWrites
            \/ isEnterprise' # isEnterprise)
           => /\ pc = "initializeIsEnterprise"
              /\ isEnterpriseWrites' = isEnterpriseWrites + 1
              /\ \A b \in BucketIds : bpc[b] = "idle" /\ bpc'[b] = "idle"
         ]_vars

C16_Witness ==
    /\ pc = "started"
    /\ isEnterpriseWrites = 1
    /\ isEnterprise
    /\ \E b \in BucketIds : bpc[b] = "done"

BootstrapFailure ==
    [renameNode |-> AxiosError,
     initializeServices |-> "Could not enable couchbase services",
     setMemoryQuotas |-> "Could not configure service memory quotas",
     configureAdminUser |-> "Could not configure couchbase admin user",
     configureExternalPorts |-> "Could not configure external ports",
     configureIndexer |-> "Could not configure the indexing service"]

\* C19: when an administration call of the bootstrap has failed, postStart
\* has failed with the error of that phase, no later bootstrap phase has
\* been called, no bucket has been launched and the start never succeeds
C19_BootstrapCallFails ==
    \A i \in 1..Len(BootstrapPhases) :
        LET phase == BootstrapPhases[i]
        IN  (/\ phase \in DOMAIN BootstrapFailure
             /\ Call(phase, <<>>) \in issued \ finished
             /\ pc # phase)
            => /\ pc = "failed"
               /\ error[<<>>] = Thrown(BootstrapFailure[phase], <<>>)
               /\ \A j \in (i + 1)..Len(BootstrapPhases) :
                     Call(BootstrapPhases[j], <<>>) \notin issued
               /\ \A call \in issued : call.on = <<>>
               /\ \A b \in BucketIds : bpc[b] = "idle"

C19_Witness ==
    /\ pc = "failed"
    /\ Call("configureExternalPorts", <<>>) \in issued \ finished
    /\ "INDEX" \in enabledServices
    /\ BucketIds # {}

\* C20: the quota of a BucketDefinition is 100 when it is created and never
\* below 100 afterwards; a withQuota call that throws leaves the definition
\* as it was; buildBucket never posts a ramQuotaMB below 100
C20_QuotaAtLeast100 ==
    /\ InitBucketVars => quota = 100
    /\ [](quota >= 100)
    /\ [](\A posted \in ramQuotaMB : posted >= 100)
    /\ [][ thrown' => UNCHANGED <<quota, flushEnabled, queryPrimaryIndex,
                                  scopes, ramQuotaMB>> ]_vars
    /\ [][ quota' # quota => (quota' \in Quotas /\ ~thrown') ]_vars

C20_Witness ==
    /\ thrown
    /\ quota = 150
    /\ ramQuotaMB = {100, 150}
    /\ scopes # {}

\* the steps of one bucket in the order the specification gives them
BucketSteps(b) ==
    LET query == "QUERY" \in enabledServices
    IN  <<"buildBucket", "waitForAllServicesEnabledForBucket">>
        \o (IF query THEN <<"waitForQueryKeyspacePresent">> ELSE <<>>)
        \o (IF query /\ buckets[b].hasPrimaryIndex
            THEN <<"buildPrimaryIndex", "waitForBucketPrimaryIndexOnline">>
            ELSE <<>>)

\* C26: within one bucket a step is started only when every earlier step of
\* that bucket has returned (create, services poll, keyspace poll with QUERY,
\* primary index and its poll with hasPrimaryIndex and QUERY), no other call
\* is made for the bucket, and a scope of the bucket is created only when
\* every one of these steps has returned
C26_BucketOrder ==
    \A b \in BucketIds :
        LET steps == BucketSteps(b)
            made(i) == Call(steps[i], <<b>>) \in issued
            done(i) == Call(steps[i], <<b>>) \in finished
        IN  /\ \A i \in 1..Len(steps) : made(i) => \A j \in 1..(i - 1) : done(j)
            /\ \A call \in issued :
                  call.on = <<b>> => \E i \in 1..Len(steps) : call.op = steps[i]
            /\ \A k \in ScopesOf(b) :
                  (Call("buildScope", k) \in issued \/ spc[k] # "idle")
                  => \A i \in 1..Len(steps) : done(i)
            /\ bpc[b] \in {"joinScopes", "done"} =>
                  \A i \in 1..Len(steps) : done(i)

C26_Witness ==
    \E k \in ScopeIds :
        /\ "QUERY" \in enabledServices
        /\ buckets[k[1]].hasPrimaryIndex
        /\ Call("buildScope", k) \in issued
        /\ Call("waitForBucketPrimaryIndexOnline", <<k[1]>>) \in finished

\* C27: a collection of a scope is created only when the create-scope call
\* has returned; the step in which the create-scope call returns launches
\* every collection of the scope at once; when the create-scope call fails
\* the scope fails with its error and no collection of the scope is ever
\* created
C27_ScopeBeforeCollections ==
    /\ [](\A k \in ScopeIds :
             LET create == Call("buildScope", k)
             IN  /\ \A c \in CollectionsOf(k) :
                       (cpc[c] # "idle" \/ Call("buildCollection", c) \in issued)
                       => create \in finished
                 /\ (create \in issued \ finished /\ spc[k] # "buildScope")
                     => /\ spc[k] = "failed"
                        /\ error[k] = Thrown("Could not create scope", k)
                        /\ \A c \in CollectionsOf(k) :
                              /\ cpc[c] = "idle"
                              /\ Call("buildCollection", c) \notin issued)
    /\ [][ \A k \in ScopeIds :
              (spc[k] = "buildScope" /\ spc'[k] # "buildScope"
               /\ Call("buildScope", k) \in finished')
              => \A c \in CollectionsOf(k) :
                    /\ cpc[c] = "idle"
                    /\ cpc'[c] = "buildCollection"
                    /\ Call("buildCollection", c) \in issued' ]_vars

C27_Witness ==
    \E k \in ScopeIds :
        /\ Cardinality(CollectionsOf(k)) = 2
        /\ spc[k] = "joinCollections"
        /\ \A c \in CollectionsOf(k) : cpc[c] = "buildCollection"

\* C28: a caller is complete only when everything it launched is: a
\* collection only when its statements are, a scope only when its collections
\* are, a bucket only when its scopes are, and the start has succeeded only
\* when every bucket, scope, collection and statement has finished all of
\* its steps, so that no call is under way any more
C28_JoinBeforeComplete ==
    /\ \A c \in CollectionIds :
          cpc[c] = "done" => \A d \in DdlsOf(c) :
                                 "QUERY" \in enabledServices => ddl[d] = "done"
    /\ \A k \in ScopeIds :
          spc[k] = "done" => \A c \in CollectionsOf(k) : cpc[c] = "done"
    /\ \A b \in BucketIds :
          bpc[b] = "done" => \A k \in ScopesOf(b) : spc[k] = "done"
    /\ pc = "started" =>
          /\ \A t \in TaskIds \ {<<>>} : Position(t) = "done"
          /\ \A d \in DdlIds : ddl[d] \in {"idle", "done"}
          /\ issued \subseteq finished
          /\ \A b \in BucketIds : Call("buildBucket", <<b>>) \in finished
          /\ \A k \in ScopeIds : Call("buildScope", k) \in finished
          /\ \A c \in CollectionIds :
                \A i \in 1..Len(CollectionSteps(c)) :
                    StepDone(c, CollectionSteps(c)[i])

C28_Witness ==
    /\ pc = "started"
    /\ "QUERY" \in enabledServices
    /\ \E k \in ScopeIds : Cardinality(CollectionsOf(k)) = 2
    /\ \E d \in DdlIds : ddl[d] = "done"

\* C23: a new CouchbaseContainer has exactly KV, QUERY, SEARCH and INDEX
\* enabled; withAnalyticsService adds ANALYTICS and withEventingService adds
\* EVENTING to the enabled services, whatever they were, and the two calls
\* change neither the buckets, nor the custom quotas, nor the credentials
C23_DefaultAndAddedServices ==
    /\ enabledServices = {"KV", "QUERY", "SEARCH", "INDEX"}
    /\ [][ withAnalyticsService =>
             /\ enabledServices' = enabledServices \cup {"ANALYTICS"}
             /\ UNCHANGED <<buckets, customServiceQuotas, credentials>>
         ]_vars
    /\ [][ withEventingService =>
             /\ enabledServices' = enabledServices \cup {"EVENTING"}
             /\ UNCHANGED <<buckets, customServiceQuotas, credentials>>
         ]_vars

C23_Witness ==
    /\ enabledServices =
         {"KV", "QUERY", "SEARCH", "INDEX", "ANALYTICS", "EVENTING"}
    /\ DOMAIN customServiceQuotas = {"KV"}
    /\ credentials = <<"testUser", "testPassword">>
    /\ DOMAIN buckets = {"b1"}
    /\ pc = "started"

\* the least quota of every service, as the documentation of the services
\* gives it
MinimumQuotas ==
    [KV |-> 256, QUERY |-> 0, SEARCH |-> 256, INDEX |-> 256,
     ANALYTICS |-> 1024, EVENTING |-> 256]

\* C25: withServiceQuota throws for the service without quota (QUERY) and
\* for a quota below the minimum of the service, a call that throws leaves
\* the custom quotas as they were, a call that does not throw sets the quota
\* of its service alone, and every custom quota is that of a service with a
\* quota and is at least the minimum of its service
C25_ServiceQuotaAtLeastMinimum ==
    /\ [](\A service \in DOMAIN customServiceQuotas :
             /\ service # "QUERY"
             /\ MinimumQuotas[service] > 0
             /\ customServiceQuotas[service] >= MinimumQuotas[service])
    /\ [][ \A service \in QuotaServices, quotaMb \in QuotaArguments :
              withServiceQuota(service, quotaMb) =>
                  IF service = "QUERY" \/ quotaMb < MinimumQuotas[service]
                  THEN thrown' /\ customServiceQuotas' = customServiceQuotas
                  ELSE /\ ~thrown'
                       /\ customServiceQuotas'[service] = quotaMb
                       /\ \A other \in DOMAIN customServiceQuotas' \ {service} :
                             /\ other \in DOMAIN customServiceQuotas
                             /\ customServiceQuotas'[other]
                                  = customServiceQuotas[other] ]_vars
    /\ [][ thrown' => UNCHANGED <<enabledServices, customServiceQuotas,
                                  credentials, buckets>> ]_vars

C25_Witness ==
    /\ thrown
    /\ DOMAIN customServiceQuotas = {"KV", "ANALYTICS"}
    /\ customServiceQuotas["KV"] = 256
    /\ customServiceQuotas["ANALYTICS"] = 1024

\* the name of the quota parameter of every service with a quota
QuotaParameterNames ==
    [KV |-> "memoryQuota", SEARCH |-> "ftsMemoryQuota",
     INDEX |-> "indexMemoryQuota", ANALYTICS |-> "cbasMemoryQuota",
     EVENTING |-> "eventingMemoryQuota"]

\* C29: the body posted to /pools/default holds, for every enabled service
\* other than QUERY, exactly one parameter, named memoryQuota for KV and
\* <identifier>MemoryQuota otherwise, whose value is the custom quota of the
\* service when one was set and the minimum quota of the service otherwise;
\* it holds nothing else (nothing for a disabled service, nothing for QUERY)
C29_QuotaSubmission ==
    pc \in {"configureExternalPorts", "started"} =>
        /\ \A service \in DOMAIN QuotaParameterNames :
              { entry \in memoryQuotas :
                  entry[1] = QuotaParameterNames[service] }
              = IF service \in enabledServices
                THEN {<<QuotaParameterNames[service],
                        IF service \in DOMAIN customServiceQuotas
                        THEN customServiceQuotas[service]
                        ELSE MinimumQuotas[service]>>}
                ELSE {}
        /\ \A entry \in memoryQuotas :
              \E service \in DOMAIN QuotaParameterNames :
                  entry[1] = QuotaParameterNames[service]

C29_Witness ==
    /\ pc = "started"
    /\ enabledServices = {"KV", "QUERY", "ANALYTICS"}
    /\ DOMAIN customServiceQuotas = {"KV"}
    /\ memoryQuotas = {<<"memoryQuota", 1023>>, <<"cbasMemoryQuota", 1024>>}

\* the parameters of the external-address registration that belong to a
\* service, plain port first
ServicePorts ==
    [KV |-> {<<"kv", 11210>>, <<"kvSSL", 11207>>,
             <<"capi", 8092>>, <<"capiSSL", 18092>>},
     QUERY |-> {<<"n1ql", 8093>>, <<"n1qlSSL", 18093>>},
     SEARCH |-> {<<"fts", 8094>>, <<"ftsSSL", 18094>>},
     INDEX |-> {},
     ANALYTICS |-> {<<"cbas", 8095>>, <<"cbasSSL", 18095>>},
     EVENTING |-> {<<"eventingAdminPort", 8096>>, <<"eventingSSL", 18096>>}]

\* C30: the external-address registration carries the hostname, the pair of
\* the management port, and for every enabled service its plain and TLS
\* port (for KV also the pair of the view service); it carries no entry of a
\* service that is not enabled, whatever the set of enabled services
C30_ExternalPorts ==
    pc = "started" =>
        /\ externalPorts.hostname = "getHost"
        /\ externalPorts.ports
             = {<<"mgmt", 8091>>, <<"mgmtSSL", 18091>>}
               \cup UNION { ServicePorts[service] :
                              service \in enabledServices }
        /\ \A service \in Services \ enabledServices :
              externalPorts.ports \cap ServicePorts[service] = {}

C30_Witness ==
    /\ pc = "started"
    /\ enabledServices = {"SEARCH", "EVENTING"}
    /\ Cardinality(externalPorts.ports) = 6

\* the collection definition after n withSecondaryIndex calls on a new one
\* and no call of withPrimaryIndex
RECURSIVE OnlySecondaryIndexes(_)
OnlySecondaryIndexes(n) ==
    IF n = 0 THEN NewCollectionDefinition
    ELSE withSecondaryIndex(OnlySecondaryIndexes(n - 1), n)

\* C22 as claimed: for a collection that was given at least one secondary
\* index and for which withPrimaryIndex was never called, no primary-index
\* statement is ever sent and no primary index comes to exist
C22_NoPrimaryIndexByDefault ==
    \A c \in CollectionIds :
        (/\ hasSecondaryIndexes(c)
         /\ buckets[c[1]].scopes[c[2]].collections[c[3]]
              = OnlySecondaryIndexes(Len(getSecondaryIndexes(c))))
        => /\ Call("buildPrimaryIndexForCollection", c) \notin issued
           /\ serverIndexes[CollectionPrimary(c)] = "none"


\* the names of a list of the file, and its last entry of a given name
NamesIn(list) == { list[i].name : i \in DOMAIN list }
LastNamed(list, name) ==
    list[CHOOSE i \in DOMAIN list :
           /\ list[i].name = name
           /\ \A j \in DOMAIN list : list[j].name = name => j <= i]

\* C21: a bucket, scope or collection added under a name that is already
\* present overwrites the earlier definition: once the file is read, each map
\* holds one definition per distinct name of its list, made from the last
\* entry of that name, and provisioning issues the create call of a name once
C21_LastDefinitionPerName ==
    /\ [](DOMAIN buckets # {} =>
            /\ DOMAIN buckets = NamesIn(couchbaseFile.buckets)
            /\ \A b \in DOMAIN buckets :
                LET bucket == LastNamed(couchbaseFile.buckets, b)
                IN  /\ buckets[b].hasPrimaryIndex
                         = (bucket.hasPrimaryIndex # "false")
                    /\ DOMAIN buckets[b].scopes = NamesIn(bucket.scopes)
                    /\ \A n \in DOMAIN buckets[b].scopes :
                        LET scope == LastNamed(bucket.scopes, n)
                            held == buckets[b].scopes[n].collections
                        IN  /\ DOMAIN held = NamesIn(scope.collections)
                            /\ \A c \in DOMAIN held :
                                held[c].hasPrimaryIndex
                                  = (LastNamed(scope.collections, c)
                                       .hasPrimaryIndex # "false"))
    /\ [][ /\ \A b \in DOMAIN bpc \cap DOMAIN bpc' :
               (bpc[b] # "buildBucket" /\ bpc'[b] = "buildBucket")
               => Call("buildBucket", <<b>>) \notin issued
           /\ \A k \in DOMAIN spc \cap DOMAIN spc' :
               (spc[k] # "buildScope" /\ spc'[k] = "buildScope")
               => Call("buildScope", k) \notin issued
           /\ \A c \in DOMAIN cpc \cap DOMAIN cpc' :
               (cpc[c] # "buildCollection" /\ cpc'[c] = "buildCollection")
               => Call("buildCollection", c) \notin issued ]_vars
    /\ [](pc = "started" =>
            { call \in issued :
                call.op \in {"buildBucket", "buildScope", "buildCollection"} }
            = { Call("buildBucket", <<b>>) : b \in BucketIds }
              \cup { Call("buildScope", k) : k \in ScopeIds }
              \cup { Call("buildCollection", c) : c \in CollectionIds })

\* C21 happens: the file lists the collection c1 twice, first without and
\* then with a primary index; the container has started and holds the second
\* definition, created once
C21_Witness ==
    /\ pc = "started"
    /\ Len(couchbaseFile.buckets) = 1
    /\ Len(couchbaseFile.buckets[1].scopes) = 1
    /\ Len(couchbaseFile.buckets[1].scopes[1].collections) = 2
    /\ couchbaseFile.buckets[1].scopes[1].collections[1].hasPrimaryIndex
         = "false"
    /\ couchbaseFile.buckets[1].scopes[1].collections[2].hasPrimaryIndex
         = "absent"
    /\ DOMAIN buckets = {"b1"}
    /\ buckets["b1"].scopes["s1"].collections["c1"].hasPrimaryIndex
    /\ Call("buildCollection", <<"b1", "s1", "c1">>) \in finished

\* C24 as claimed: once a container configured by fromCouchbaseFile has
\* started, every statement listed under indexes of a collection of the file
\* has been issued for that collection and its index is online
C24_FileIndexesProvisioned ==
    (pc = "started" /\ DOMAIN buckets # {}) =>
        \A bi \in DOMAIN couchbaseFile.buckets :
            LET bucket == couchbaseFile.buckets[bi]
            IN  \A si \in DOMAIN bucket.scopes :
                    LET scope == bucket.scopes[si]
                    IN  \A ci \in DOMAIN scope.collections :
                            LET collection == scope.collections[ci]
                                id == <<bucket.name, scope.name,
                                        collection.name>>
                            IN  \A i \in DOMAIN collection.indexes :
                                    /\ Call("buildSecondaryIndexForCollection",
                                            id \o <<i>>) \in issued
                                    /\ id \o <<i>> \in DOMAIN serverIndexes
                                    /\ serverIndexes[id \o <<i>>] = "online"

\* the statements that create an index
IndexCreateCalls ==
    { call \in issued :
        call.op \in {"buildPrimaryIndex", "buildPrimaryIndexForCollection",
                     "buildSecondaryIndexForCollection"} }

\* C31: the indexer settings are posted exactly when INDEX is enabled (once
\* configureExternalPorts has returned), after isEnterprise was written and
\* before any statement that creates an index, with storage mode
\* memory_optimized for an enterprise server and forestdb otherwise
C31_IndexerSettings ==
    /\ Call("configureIndexer", <<>>) \in issued
         => /\ "INDEX" \in enabledServices
            /\ isEnterpriseWrites >= 1
            /\ Call("initializeIsEnterprise", <<>>) \in finished
    /\ (Call("configureExternalPorts", <<>>) \in finished
        /\ "INDEX" \in enabledServices)
         => Call("configureIndexer", <<>>) \in issued
    /\ (IndexCreateCalls # {} /\ "INDEX" \in enabledServices)
         => Call("configureIndexer", <<>>) \in finished
    /\ (indexerSettings.storageMode # ""
        \/ Call("configureIndexer", <<>>) \in finished)
         => indexerSettings.storageMode
              = (IF isEnterprise THEN "memory_optimized" ELSE "forestdb")
    /\ indexerSettings.storageMode # ""
         => Call("configureIndexer", <<>>) \in issued

\* C31 happens: the settings went to an enterprise server and a statement
\* creating an index followed
C31_Witness ==
    /\ isEnterprise
    /\ indexerSettings.storageMode = "memory_optimized"
    /\ Call("configureIndexer", <<>>) \in finished
    /\ IndexCreateCalls # {}

\* p is a prefix of the key k
IsPrefix(p, k) == \E n \in 0..Len(k) : SubSeq(k, 1, n) = p
\* the characters of the identifier of a service
IdentifierOf ==
    [KV |-> <<"k", "v">>, QUERY |-> <<"n", "1", "q", "l">>,
     SEARCH |-> <<"f", "t", "s">>, INDEX |-> <<"i", "n", "d", "e", "x">>,
     ANALYTICS |-> <<"c", "b", "a", "s">>,
     EVENTING |-> <<"e", "v", "e", "n", "t", "i", "n", "g">>]
\* the keys reported for the first node of the listing, if it has one
FirstNodeExists ==
    listing.hasData /\ listing.hasNodesExt /\ Len(listing.nodesExt) >= 1
FirstNodeKeys ==
    IF FirstNodeExists /\ listing.nodesExt[1].hasServices
    THEN listing.nodesExt[1].services ELSE {}

\* C32: the predicate holds for a listing exactly when its first node entry
\* exists and the identifier of every enabled service is a prefix of a key
\* reported for that node
C32_ServicesVisible ==
    visible # "pending" =>
        (visible = "true"
         <=> /\ FirstNodeExists
             /\ \A service \in enabledServices :
                  \E key \in FirstNodeKeys : IsPrefix(IdentifierOf[service], key))

\* C32 happens: INDEX and QUERY are enabled and seen through the keys
\* indexAdmin and n1qlSSL of the first node
C32_Witness ==
    /\ visible = "true"
    /\ enabledServices = {"KV", "QUERY", "INDEX"}
    /\ Len(listing.nodesExt) = 1
    /\ Cardinality(listing.nodesExt[1].services) = 4
    /\ <<"i", "n", "d", "e", "x", "A", "d", "m", "i", "n">>
         \in listing.nodesExt[1].services
    /\ <<"n", "1", "q", "l", "S", "S", "L">> \in listing.nodesExt[1].services
    /\ <<"k">> \in listing.nodesExt[1].services

\* C33: the pair posted by configureAdminUser, the pair every request is
\* authenticated with and the pair the started container returns are the
\* username and password the container holds, which are the values last
\* given to withUsername, withUserPassword or withCredentials: each of these
\* sets what it is given and leaves the rest, and nothing changes the pair
\* once start() was called
C33_SameCredentials ==
    /\ [](adminUser.port # "" =>
            adminUser = [username |-> credentials[1],
                         password |-> credentials[2], port |-> "SAME"])
    /\ [](\A used \in auth :
            used = [username |-> credentials[1], password |-> credentials[2]])
    /\ [](pc = "started" =>
            /\ startedCredentials = credentials
            /\ adminUser.username = startedCredentials[1]
            /\ adminUser.password = startedCredentials[2]
            /\ auth = {[username |-> startedCredentials[1],
                        password |-> startedCredentials[2]]})
    /\ [][pc # "start" => credentials' = credentials]_vars
    /\ [][withUsername =>
            credentials'[1] \in Usernames /\ credentials'[2] = credentials[2]
         ]_vars
    /\ [][withUserPassword =>
            credentials'[2] \in Passwords /\ credentials'[1] = credentials[1]
         ]_vars
    /\ [][withCredentials => credentials' \in Credentials]_vars
    /\ [][credentials' # credentials =>
            withUsername \/ withUserPassword \/ withCredentials]_vars

\* C33 happens: withUsername came after withCredentials (or withUserPassword)
\* and the container has started
C33_Witness ==
    /\ pc = "started"
    /\ credentials = <<"admin", "testPassword">>
    /\ adminUser = [username |-> "admin", password |-> "testPassword",
                    port |-> "SAME"]
    /\ auth = {[username |-> "admin", password |-> "testPassword"]}
    /\ startedCredentials = <<"admin", "testPassword">>

\* C34 as claimed: once the poll of untilNodeIsOnline has seen HTTP 200, no
\* further cluster-info request is made before isEnterprise is written
C34_SameInfoCall ==
    [][ ~(/\ Call("untilNodeIsOnline", <<>>) \in finished
          /\ isEnterpriseWrites = 0
          /\ initializeIsEnterprise) ]_vars

\* C34 as the code has it: isEnterprise is written by a step of the poll of
\* initializeIsEnterprise, which requests the cluster info again after the
\* poll of untilNodeIsOnline has returned; the value written is the one the
\* server reports
C34_EditionFromSecondPoll ==
    /\ [][ isEnterpriseWrites' # isEnterpriseWrites =>
             /\ pc = "initializeIsEnterprise"
             /\ Call("untilNodeIsOnline", <<>>) \in finished
             /\ Call("initializeIsEnterprise", <<>>) \in issued
             /\ initializeIsEnterprise
             /\ isEnterprise' = serverEnterprise ]_vars
    /\ [](isEnterpriseWrites = 0 => ~isEnterprise)
    /\ [](Call("initializeIsEnterprise", <<>>) \in issued
            => Call("untilNodeIsOnline", <<>>) \in finished)

\* C34 happens: both polls have returned and the edition of an enterprise
\* server was written
C34_Witness ==
    /\ Call("untilNodeIsOnline", <<>>) \in finished
    /\ Call("initializeIsEnterprise", <<>>) \in finished
    /\ isEnterpriseWrites = 1
    /\ isEnterprise

\* C35 as claimed: the predicate of the secondary-index wait holds for a
\* probe only when the probe returned at least one row and every row it
\* returned is online; on zero rows the wait does not complete
C35_NoCompletionOnZeroRows ==
    visible = "true" =>
        /\ listing.hasResults
        /\ Len(listing.results) >= 1
        /\ \A i \in DOMAIN listing.results : listing.results[i] = "online"

\* the steps of a bucket and of a collection that create something
BucketCreates == {"buildBucket", "buildPrimaryIndex"}
CollectionCreates == {"buildCollection", "buildPrimaryIndexForCollection"}

\* C36: a create call is made at most once for its bucket, scope, collection
\* or statement: a task comes to a create step only when that call was never
\* made before, and the answer to a create call, whatever it is, takes the
\* task off that step; what repeats is the probe of a wait step
C36_CreateCallsOnce ==
    /\ [][ /\ \A b \in BucketIds, op \in BucketCreates :
               (bpc[b] # op /\ bpc'[b] = op) => Call(op, <<b>>) \notin issued
           /\ \A k \in ScopeIds :
               (spc[k] # "buildScope" /\ spc'[k] = "buildScope")
                   => Call("buildScope", k) \notin issued
           /\ \A c \in CollectionIds, op \in CollectionCreates :
               (cpc[c] # op /\ cpc'[c] = op) => Call(op, c) \notin issued
           /\ \A d \in DdlIds :
               (ddl[d] # "inflight" /\ ddl'[d] = "inflight")
                   => Call("buildSecondaryIndexForCollection", d) \notin issued
         ]_vars
    /\ [][ /\ \A b \in BucketIds :
               /\ buildBucket(b) => bpc'[b] # "buildBucket"
               /\ buildPrimaryIndex(b) => bpc'[b] # "buildPrimaryIndex"
           /\ \A k \in ScopeIds : buildScope(k) => spc'[k] # "buildScope"
           /\ \A c \in CollectionIds :
               /\ buildCollection(c) => cpc'[c] # "buildCollection"
               /\ buildPrimaryIndexForCollection(c)
                    => cpc'[c] # "buildPrimaryIndexForCollection"
           /\ \A d \in DdlIds :
               buildSecondaryIndexForCollection(d) => ddl'[d] # "inflight"
         ]_vars
    /\ [](\A call \in issued :
            (call.op = "buildSecondaryIndexForCollection"
             /\ ddl[call.on] # "inflight")
                => ddl[call.on] \in {"done", "failed"})

\* C36 happens: the primary index of one bucket was deferred and is being
\* polled for, while the create call of the other bucket has failed
C36_Witness ==
    \E b, x \in BucketIds :
        /\ bpc[b] = "waitForBucketPrimaryIndexOnline"
        /\ serverIndexes[BucketPrimary(b)] = "building"
        /\ Call("buildPrimaryIndex", <<b>>) \in finished
        /\ bpc[x] = "failed"
        /\ Call("buildBucket", <<x>>) \in issued \ finished

\* C37: when fn() rejects, retryUntil rejects in that very step: it takes no
\* result, calls neither wait nor onTimeout, and nothing follows, whatever
\* the deadline; a wait step of the provisioning phase then throws
C37_RejectedProbeFailsAtOnce ==
    /\ [][ (rpc # "threw" /\ rpc' = "threw") =>
             /\ rpc = "probing"
             /\ returned' = Rejection
             /\ UNCHANGED <<results, probes, sleeps, onTimeoutCalls>> ]_vars
    /\ [][ rpc # "threw" ]_vars
    /\ [](returned = Rejection <=> rpc = "threw")
    /\ \A sat \in BOOLEAN, timedOut \in BOOLEAN :
         /\ retryUntil("rejected", sat, timedOut) = "throw"
         /\ ProvisioningWait(retryUntil("rejected", sat, timedOut)) = "throws"

\* C37 happens: the second probe was rejected, after the deadline
C37_Witness ==
    /\ rpc = "threw"
    /\ probes = 2
    /\ sleeps = 1
    /\ Len(results) = 1
    /\ onTimeoutCalls = 0
    /\ returned = Rejection
    /\ hasTimedOut(now, timeout, startTime)

\* C38: a failed or non-200 cluster-info request of the Online phase is a
\* result that fails the predicate: before the deadline the poll goes on,
\* and the phase is left only for initializeIsEnterprise, once the node
\* answered, or by the timeout error
C38_OnlinePhaseFailsByTimeoutOnly ==
    /\ [][ (pc = "untilNodeIsOnline" /\ pc' # pc) =>
             \/ /\ pc' = "failed"
                /\ error'[<<>>] = Thrown(NodeOnlineTimeout, <<>>)
                /\ Call("untilNodeIsOnline", <<>>) \notin finished'
             \/ /\ pc' = "initializeIsEnterprise"
                /\ nodeOnline
                /\ Call("untilNodeIsOnline", <<>>) \in finished' ]_vars
    /\ \A response \in PoolsResponses \ {"200"} :
         /\ untilNodeIsOnlineProbe(response) = "resolved"
         /\ retryUntil(untilNodeIsOnlineProbe(response), response = "200",
                       FALSE) = "retry"
         /\ retryUntil(untilNodeIsOnlineProbe(response), response = "200",
                       TRUE) = "onTimeout"

\* C38 happens: the node was listening, but no request was answered with
\* HTTP 200 before the deadline
C38_Witness ==
    /\ nodeOnline
    /\ pc = "failed"
    /\ error[<<>>] = Thrown(NodeOnlineTimeout, <<>>)
    /\ issued = {Call("untilNodeIsOnline", <<>>)}

\* C39: a retryUntil call with timeout T and interval I invokes fn() at most
\* floor(T / I) + 2 times, and, every probe settling and every timer firing,
\* it returns or throws
C39_RetryUntilTerminates ==
    /\ [](probes <= (timeout \div interval) + 2)
    /\ [](sleeps <= (timeout \div interval) + 1)
    /\ <>(rpc \in {"returned", "threw"})

\* C39 happens: with timeout 3 and interval 1 the fifth probe was the last
C39_Witness ==
    /\ timeout = 3
    /\ interval = 1
    /\ probes = 5
    /\ rpc = "returned"
    /\ returned = OnTimeoutValue

\* the consequence for postStart: with every retryUntil call ending, the
\* bootstrap and the fan-out over the definitions resolve or reject
PostStartSettles == <>(pc \in {"started", "failed"})

\* the calls made for bucket b or for a scope, collection or statement below it
CallsFor(b) == { call \in issued : call.on # <<>> /\ call.on[1] = b }

\* POST /pools/default/buckets for b was answered with a failure
BuildBucketFailed(b) ==
    /\ Call("buildBucket", <<b>>) \in issued \ finished
    /\ bpc[b] # "buildBucket"

\* C40: when the create-bucket call of a bucket failed, that call is the only
\* one ever made for the bucket: createBucket threw "Could not create bucket",
\* no wait step or primary-index statement of the bucket was started, and no
\* scope, collection or secondary index below it was ever launched
C40_FailedBucketMakesNoFurtherCall ==
    \A b \in BucketIds :
        BuildBucketFailed(b) =>
            /\ CallsFor(b) = {Call("buildBucket", <<b>>)}
            /\ bpc[b] = "failed"
            /\ error[<<b>>] = Thrown("Could not create bucket", <<b>>)
            /\ \A k \in ScopesOf(b) : spc[k] = "idle"
            /\ \A c \in CollectionIds : c[1] = b => cpc[c] = "idle"
            /\ \A d \in DdlIds : d[1] = b => ddl[d] = "idle"
            /\ serverIndexes[BucketPrimary(b)] = "none"

\* C40 happens: the create-bucket call failed for a bucket that has a primary
\* index, a scope and a collection with a secondary index, on a node that
\* runs the query service; postStart rejected
C40_Witness ==
    \E b \in BucketIds :
        /\ BuildBucketFailed(b)
        /\ buckets[b].hasPrimaryIndex
        /\ "QUERY" \in enabledServices
        /\ \E d \in DdlIds : d[1] = b
        /\ pc = "failed"
====
